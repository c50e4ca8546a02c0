------------------------ MODULE MatchHandler_proofs ------------------------
(***************************************************************************)
(* Theorems about MatchHandler, for any number of players and cards, any   *)
(* deck and any amounts of gold.                                           *)
(***************************************************************************)
EXTENDS MatchHandler, Piles_proofs

(* The invariant of the specification, and what it implies.                *)

LEMMA InitSound == Init => Sound(match)
<1>1. InitialDeck \in Seq(Card)
  BY DeckAssumption
<1>. QED
  BY <1>1 DEF Init, NewMatch, Sound, Covered, MatchType, Phase, Undisputed,
              AllReset

(* The inductive invariant: a match between two handlers is Sound, however *)
(* its players join, move and leave.                                       *)
THEOREM SoundInvariant == Spec => []Sound(match)
<1>1. Init => Sound(match)
  BY InitSound
<1>2. Sound(match) /\ [Next]_vars => Sound(match)'
  <2>. SUFFICES ASSUME Sound(match), [Next]_vars PROVE Sound(match')
    BY DEF Sound, Covered, MatchType, Undisputed, AllReset
  <2>. USE DEF Alive
  <2>1. ASSUME NEW n \in Name, Join(n) PROVE Sound(match')
    <3>1. match.currentPhase \in {"WaitForStart", "Finished"}
      BY <2>1 DEF Join, IsRunning
    <3>2. /\ Sound(AddPlayer(match, n)) /\ Undisputed(AddPlayer(match, n))
          /\ AddPlayer(match, n).players # <<>>
      BY <3>1, AddPlayerSound
    <3>3. match' \in Starts(AddPlayer(match, n)) \/ match' = AddPlayer(match, n)
      BY <2>1 DEF Join
    <3>. QED
      BY <3>2, <3>3, StartSound
  <2>2. ASSUME NEW n \in Name, Leave(n) PROVE Sound(match')
    BY <2>2, RemovePlayerSound DEF Leave, Names, NamesOf, IsPlayer
  <2>3. ASSUME NEW n \in Name, Attack(n) PROVE Sound(match')
    BY <2>3, HandleAttackHandled, HandledSound DEF Attack, Names, NamesOf, IsPlayer
  <2>4. ASSUME NEW n \in Name, NEW gold \in OfferAmounts, Offer(n, gold)
        PROVE  Sound(match')
    BY <2>4, HandleOfferHandled, HandledSound, OfferAssumption DEF Offer, Names, NamesOf, IsPlayer
  <2>5. ASSUME NEW n \in Name, Pass(n) PROVE Sound(match')
    BY <2>5, HandlePassHandled, HandledSound DEF Pass, Names, NamesOf, IsPlayer
  <2>6. CASE UNCHANGED vars
    BY <2>6 DEF vars
  <2>. QED
    BY <2>1, <2>2, <2>3, <2>4, <2>5, <2>6 DEF Next, Input
<1>. QED
  BY <1>1, <1>2, PTL DEF Spec

(* The fields keep their types and no player's gold is ever negative.      *)
THEOREM TypeCorrect == Spec => []TypeOK
<1>1. Sound(match) => TypeOK
  BY DEF Sound, TypeOK
<1>. QED
  BY <1>1, SoundInvariant, PTL

(* No handler panics and none reads a card or a player that is not there:  *)
(* what is sold is always paid in full.                                    *)
THEOREM NeverFaults == Spec => []NoFault
<1>1. Sound(match) => NoFault
  BY DEF Sound, NoFault
<1>. QED
  BY <1>1, SoundInvariant, PTL

(* Whoever leads or ties an auction owns the gold of the current offer.    *)
THEOREM BidsAreCovered == Spec => []BidCovered
<1>1. Sound(match) => BidCovered
  <2>. SUFFICES ASSUME Sound(match) PROVE BidCovered
    OBVIOUS
  <2>1. DOMAIN match.players = 1..Len(match.players)
    BY DEF Sound, MatchType
  <2>. QED
    BY <2>1 DEF Sound, Covered, BidCovered, Winning, Tying, PlayerAt, Indices
<1>. QED
  BY <1>1, SoundInvariant, PTL

-----------------------------------------------------------------------------
(* A match nobody leaves while it runs.                                    *)

(* Between two handlers it is sound, some player has a force to show or    *)
(* gold to offer (or it is not running), and what lies on the table is     *)
(* held by those who lead.                                                 *)
Settled == Sound(match) /\ Resting(match) /\ Led(match)

LEMMA SettledInvariant == SteadySpec => []Settled
<1>. USE DEF Settled
<1>1. Init => Settled
  BY InitSound DEF Init, NewMatch, Resting, Led
<1>2. Settled /\ [SteadyNext]_vars => Settled'
  <2>. SUFFICES ASSUME Settled, [SteadyNext]_vars
                PROVE  Sound(match') /\ Resting(match') /\ Led(match')
    BY DEF Sound, Covered, MatchType, Undisputed, AllReset, Resting, Led,
           ArePossibleAttacks, ArePossibleOffers, NobodyLeads, SomeoneLeads,
           Leads, Tied
  <2>. USE DEF Alive
  <2>1. ASSUME NEW n \in Name, Join(n)
        PROVE  Sound(match') /\ Resting(match') /\ Led(match')
    <3>1. match.currentPhase \in {"WaitForStart", "Finished"}
      BY <2>1 DEF Join, IsRunning
    <3>2. /\ Sound(AddPlayer(match, n)) /\ Undisputed(AddPlayer(match, n))
          /\ AddPlayer(match, n).players # <<>>
      BY <3>1, AddPlayerSound
    <3>3. Resting(AddPlayer(match, n)) /\ Led(AddPlayer(match, n))
      BY <3>1, <3>2, UndisputedIsLed DEF AddPlayer, Sound, MatchType, Resting
    <3>4. match' \in Starts(AddPlayer(match, n)) \/ match' = AddPlayer(match, n)
      BY <2>1 DEF Join
    <3>. QED
      BY <3>2, <3>3, <3>4, StartSound
  <2>2. ASSUME NEW n \in Name, ~IsRunning, Leave(n)
        PROVE  Sound(match') /\ Resting(match') /\ Led(match')
    <3>1. match.currentPhase \in {"WaitForStart", "Finished"}
      BY <2>2 DEF IsRunning
    <3>2. IsPlayer(match, n) /\ match' = RemovePlayer(match, n)
      BY <2>2 DEF Leave, Names, NamesOf, IsPlayer
    <3>3. match'.currentPhase = match.currentPhase
      BY <3>2 DEF RemovePlayer, Sound, MatchType
    <3>. QED
      BY <3>1, <3>2, <3>3, RemovePlayerSound DEF Resting, Led
  <2>3. ASSUME NEW n \in Name, Attack(n)
        PROVE  Sound(match') /\ Resting(match') /\ Led(match')
    BY <2>3, HandleAttackHandled, HandledSound DEF Attack, Names, NamesOf, IsPlayer
  <2>4. ASSUME NEW n \in Name, NEW gold \in OfferAmounts, Offer(n, gold)
        PROVE  Sound(match') /\ Resting(match') /\ Led(match')
    BY <2>4, HandleOfferHandled, HandledSound, OfferAssumption DEF Offer, Names, NamesOf, IsPlayer
  <2>5. ASSUME NEW n \in Name, Pass(n)
        PROVE  Sound(match') /\ Resting(match') /\ Led(match')
    BY <2>5, HandlePassHandled, HandledSound DEF Pass, Names, NamesOf, IsPlayer
  <2>6. CASE UNCHANGED vars
    BY <2>6 DEF vars
  <2>. QED
    BY <2>1, <2>2, <2>3, <2>4, <2>5, <2>6 DEF SteadyNext, Input
<1>. QED
  BY <1>1, <1>2, PTL DEF SteadySpec

(* A match that runs has a player with an input that is accepted.          *)
THEOREM AlwaysAMove == SteadySpec => []NeverStuck
<1>1. Settled => NeverStuck
  <2>. SUFFICES ASSUME Settled, IsRunning PROVE SomeoneCanMove
    BY DEF NeverStuck
  <2>1. CASE /\ match.currentPhase = "Attack"
             /\ ArePossibleAttacks(match, match.currentAttack)
    BY <2>1 DEF ArePossibleAttacks, AcceptsAttack, SomeoneCanMove
  <2>2. CASE /\ match.currentPhase = "Auction"
             /\ ArePossibleOffers(match, match.currentOffer)
    BY <2>2 DEF ArePossibleOffers, CanOffer, CanPass, AcceptsPass,
                SomeoneCanMove
  <2>. QED
    BY <2>1, <2>2 DEF Settled, Sound, Resting, IsRunning
<1>. QED
  BY <1>1, SettledInvariant, PTL

(* Two of a finite set of players.                                         *)
LEMMA AtLeastTwo ==
    ASSUME NEW n \in Nat, NEW S \in SUBSET (1..n),
           NEW i \in S, NEW j \in S, i # j
    PROVE  Cardinality(S) >= 2
<1>1. IsFiniteSet(S)
  <2>1. IsFiniteSet(1..n)
    BY FS_Interval
  <2>. QED
    BY <2>1, FS_Subset
<1>2. IsFiniteSet({i}) /\ Cardinality({i}) = 1
  BY FS_Singleton
<1>3. Cardinality({i} \cup {j}) = 2
  BY <1>2, FS_AddElement
<1>4. Cardinality({i} \cup {j}) <= Cardinality(S) /\ Cardinality(S) \in Nat
  <2>1. {i} \cup {j} \subseteq S
    OBVIOUS
  <2>. QED
    BY <1>1, <2>1, FS_Subset, FS_CardinalityType
<1>. QED
  BY <1>3, <1>4

(* A force or an offer stands exactly when someone holds it: one winner,   *)
(* or at least two players who tie.                                        *)
THEOREM LeaderHoldsBid == SteadySpec => []LeaderMatchesBid
<1>1. Settled => LeaderMatchesBid
  <2>. DEFINE NoLeader  == Winning = {} /\ Tying = {}
              OneWinner == Cardinality(Winning) = 1 /\ Tying = {}
              Tie       == Winning = {} /\ Cardinality(Tying) >= 2
  <2>. SUFFICES ASSUME Settled PROVE LeaderMatchesBid
    OBVIOUS
  <2>1. DOMAIN match.players = 1..Len(match.players)
        /\ Len(match.players) \in Nat
    BY DEF Settled, Sound, MatchType
  <2>. USE DEF Winning, Tying, PlayerAt, Indices
  <2>2. NobodyLeads(match.players) => NoLeader
    BY <2>1 DEF NobodyLeads
  <2>3. ASSUME SomeoneLeads(match.players) PROVE OneWinner
    <3>1. PICK w \in 1..Len(match.players) : Leads(match.players, w)
      BY <2>3 DEF SomeoneLeads
    <3>2. Winning = {w} /\ Tying = {}
      BY <2>1, <3>1 DEF Leads
    <3>. QED
      BY <3>2, FS_Singleton
  <2>4. ASSUME Tied(match.players) PROVE Tie
    <3>1. PICK i, j \in 1..Len(match.players) :
            i # j /\ i \in Tying /\ j \in Tying
      BY <2>1, <2>4 DEF Tied
    <3>2. Tying \in SUBSET (1..Len(match.players))
      BY <2>1
    <3>3. Cardinality(Tying) >= 2
      BY <2>1, <3>1, <3>2, AtLeastTwo
    <3>. QED
      BY <2>1, <2>4, <3>3 DEF Tied
  <2>5. match.currentPhase \notin {"Attack", "Auction"} => NoLeader
    BY <2>2 DEF Settled, Sound, Undisputed, AllReset, NobodyLeads
  <2>. QED
    BY <2>2, <2>3, <2>4, <2>5 DEF Settled, Led, LeaderMatchesBid
<1>. QED
  BY <1>1, SettledInvariant, PTL

-----------------------------------------------------------------------------
(* The cards: none is ever lost or in two places.                          *)

(* The inductive invariant: with the cards, the nicknames are apart, so    *)
(* that who leaves is not there afterwards under the same nickname.        *)
Dealt == Sound(match) /\ Apart(match) /\ Distinct(match.players)

LEMMA NamesAre ==
    ASSUME Dealt
    PROVE  Names = {match.players[i].name : i \in 1..Len(match.players)}
BY DEF Dealt, Sound, MatchType, Names, NamesOf, NameAt

LEMMA InitDealt == Init => Dealt
<1>. SUFFICES ASSUME Init PROVE Dealt
  OBVIOUS
<1>1. match.deck = InitialDeck /\ match.players = <<>>
      /\ match.cardsInAuction = <<>> /\ match.discarded = <<>>
  BY DEF Init, NewMatch
<1>2. IsInjective(<<>>) /\ ToSet(<<>>) = {}
  BY DEF IsInjective, ToSet
<1>3. Hands(<<>>) = {} /\ HandsApart(<<>>) /\ Distinct(<<>>)
  BY DEF Hands, HandsApart, Distinct
<1>. QED
  BY <1>1, <1>2, <1>3, InitSound, DeckAssumption
     DEF Dealt, Apart, PilesApart

(* One step: it stays dealt, and if nobody leaves every card stays.        *)
LEMMA StepDealt ==
    ASSUME Dealt, [Next]_vars
    PROVE  Dealt' /\ (Names \subseteq Names' => Held(match') = Held(match))
<1>. DEFINE Good == /\ Sound(match') /\ Apart(match') /\ Distinct(match'.players)
                    /\ \/ Held(match') = Held(match)
                       \/ \E n \in Names : \A j \in 1..Len(match'.players) :
                             match'.players[j].name # n
<1>. USE DEF Alive
<1>1. Sound(match) /\ MatchType(match) /\ Apart(match) /\ Distinct(match.players)
  BY DEF Dealt, Sound
<1>2. ASSUME NEW h, Sound(h), Keeps(match, h)
      PROVE  Apart(h) /\ Distinct(h.players) /\ Held(h) = Held(match)
  <2>1. h.players \in Seq(PlayerType) /\ match.players \in Seq(PlayerType)
    BY <1>1, <1>2 DEF Sound, MatchType
  <2>. QED
    BY <1>1, <1>2, <2>1, SameNamesDistinct DEF Keeps
<1>3. ASSUME NEW n \in Name, Join(n) PROVE Good
  <2>. DEFINE joined == AddPlayer(match, n)
  <2>1. match.currentPhase \in {"WaitForStart", "Finished"}
    BY <1>3 DEF Join, IsRunning
  <2>2. \A i \in 1..Len(match.players) : match.players[i].name # n
    BY <1>3, NamesAre DEF Join
  <2>3. /\ Sound(joined) /\ Undisputed(joined) /\ joined.players # <<>>
    BY <1>1, <2>1, AddPlayerSound
  <2>4. Held(joined) = Held(match) /\ Apart(joined) /\ Distinct(joined.players)
    BY <1>1, <2>2, AddPlayerKeeps
  <2>5. match' \in Starts(joined) \/ match' = joined
    BY <1>3 DEF Join
  <2>. HIDE DEF joined
  <2>6. CASE match' = joined
    BY <2>3, <2>4, <2>6
  <2>7. CASE match' \in Starts(joined)
    <3>1. Sound(match') /\ Keeps(joined, match')
      BY <2>3, <2>7, StartSound, StartKeeps
    <3>2. match'.players \in Seq(PlayerType) /\ joined.players \in Seq(PlayerType)
      BY <2>3, <3>1 DEF Sound, MatchType
    <3>. QED
      BY <2>4, <3>1, <3>2, SameNamesDistinct DEF Keeps
  <2>. QED
    BY <2>5, <2>6, <2>7
<1>4. ASSUME NEW n \in Name, Leave(n) PROVE Good
  <2>1. IsPlayer(match, n) /\ n \in Names /\ match' = RemovePlayer(match, n)
    BY <1>4 DEF Leave, Names, NamesOf, IsPlayer
  <2>. QED
    BY <1>1, <2>1, RemovePlayerSound, RemovePlayerKeeps
<1>5. ASSUME NEW n \in Name, Input(n) PROVE Good
  <2>1. ASSUME Handled(match, match') PROVE Good
    BY <1>1, <1>2, <2>1, HandledSound, HandledKeeps
  <2>2. CASE Attack(n)
    BY <1>1, <2>1, <2>2, HandleAttackHandled DEF Attack, Names, NamesOf, IsPlayer
  <2>3. ASSUME NEW gold \in OfferAmounts, Offer(n, gold) PROVE Good
    BY <1>1, <2>1, <2>3, HandleOfferHandled, OfferAssumption
       DEF Offer, Names, NamesOf, IsPlayer
  <2>4. CASE Pass(n)
    BY <1>1, <2>1, <2>4, HandlePassHandled DEF Pass, Names, NamesOf, IsPlayer
  <2>. QED
    BY <1>5, <2>2, <2>3, <2>4 DEF Input
<1>6. ASSUME UNCHANGED vars PROVE Good
  BY <1>1, <1>6 DEF vars
<1>7. Good
  <2>. HIDE DEF Good
  <2>. QED
    BY <1>3, <1>4, <1>5, <1>6 DEF Next
<1>8. Dealt'
  <2>1. Sound(match)'
    BY <1>7 DEF Sound, Covered, MatchType, Undisputed, AllReset
  <2>2. Apart(match)'
    BY <1>7 DEF Apart, PilesApart, HandsApart, Hands, Hand, Piles
  <2>3. Distinct(match.players)'
    BY <1>7 DEF Distinct
  <2>. QED
    BY <2>1, <2>2, <2>3 DEF Dealt
<1>9. Names' = {match'.players[i].name : i \in 1..Len(match'.players)}
  BY <1>7 DEF Sound, MatchType, Names, NamesOf, NameAt
<1>. QED
  BY <1>7, <1>8, <1>9

(* What the properties of the runs say, of the piles one by one.           *)
LEMMA ApartIsOneHolder ==
    ASSUME Dealt
    PROVE  OneHolderPerCard /\ AllCards = Held(match)
<1>. DEFINE piles == match.deck \o match.cardsInAuction \o match.discarded
            ps == match.players
<1>1. /\ match.deck \in Seq(Card) /\ match.cardsInAuction \in Seq(Card)
      /\ match.discarded \in Seq(Card) /\ DOMAIN ps = 1..Len(ps)
      /\ Apart(match)
  BY DEF Dealt, Sound, MatchType
<1>2. ToSet(piles) = Piles(match) /\ IsInjective(piles)
  <2>. DEFINE table == match.deck \o match.cardsInAuction
  <2>1. table \in Seq(Card)
    BY <1>1, ConcatProperties
  <2>2. /\ ToSet(table) = ToSet(match.deck) \cup ToSet(match.cardsInAuction)
        /\ IsInjective(table)
    BY <1>1, ConcatPile DEF Apart, PilesApart
  <2>. HIDE DEF table
  <2>3. ToSet(table) \cap ToSet(match.discarded) = {}
    BY <1>1, <2>2 DEF Apart, PilesApart
  <2>4. /\ ToSet(table \o match.discarded) = Piles(match)
        /\ IsInjective(table \o match.discarded)
    BY <1>1, <2>1, <2>2, <2>3, ConcatPile DEF Apart, PilesApart, Piles
  <2>. QED
    BY <2>4 DEF table
<1>. HIDE DEF piles
<1>3. \A i \in 1..Len(ps) : Hand(ps, i) \subseteq Hands(ps)
  BY DEF Hands
<1>4. OneHolderPerCard
  <2>1. ASSUME NEW i \in Indices
        PROVE  /\ Owned(PlayerAt(i)) \cap ToSet(piles) = {}
               /\ PlayerAt(i).activeCards
                    \cap PlayerAt(i).purchasedThisTurnCards = {}
               /\ \A j \in Indices \ {i} :
                    Owned(PlayerAt(i)) \cap Owned(PlayerAt(j)) = {}
    BY <1>1, <1>2, <1>3 DEF Indices, PlayerAt, Apart, HandsApart, Hand
  <2>. QED
    BY <1>2, <2>1 DEF OneHolderPerCard, piles
<1>5. AllCards = Held(match)
  <2>1. Hands(ps) = UNION {Owned(PlayerAt(i)) : i \in Indices}
    BY <1>1 DEF Hands, Hand, Indices, PlayerAt
  <2>2. AllCards = ToSet(piles) \cup UNION {Owned(PlayerAt(i)) : i \in Indices}
    BY DEF AllCards, piles
  <2>3. Held(match) = Hands(ps) \cup Piles(match)
    BY DEF Held
  <2>. HIDE DEF ps
  <2>. QED
    BY <1>2, <2>1, <2>2, <2>3
<1>. QED
  BY <1>4, <1>5

LEMMA DealtInvariant == Spec => []Dealt
<1>1. Dealt /\ [Next]_vars => Dealt'
  BY StepDealt
<1>. QED
  BY <1>1, InitDealt, PTL DEF Spec

(* No card is twice in the deck, on the table or discarded, nor in two of  *)
(* these places or with two players.                                       *)
THEOREM CardsAreApart == Spec => []OneHolderPerCard
<1>1. Dealt => OneHolderPerCard
  BY ApartIsOneHolder
<1>. QED
  BY <1>1, DealtInvariant, PTL

(* No handler loses a card or makes one: the cards of the match are the    *)
(* same after every step in which nobody leaves.                           *)
THEOREM CardsAreKept == Spec => NoCardLost
<1>1. Dealt /\ Dealt' /\ [Next]_vars
        => [Names \subseteq Names' => AllCards' = AllCards]_vars
  <2>. SUFFICES ASSUME Dealt, Dealt', [Next]_vars, Names \subseteq Names'
                PROVE  AllCards' = AllCards
    OBVIOUS
  <2>1. Held(match') = Held(match)
    BY StepDealt
  <2>2. AllCards = Held(match)
    BY ApartIsOneHolder
  <2>3. AllCards' = Held(match')
    <3>1. (AllCards = Held(match))'
      BY ApartIsOneHolder, PTL
    <3>. QED
      BY <3>1 DEF Held, Hands, Hand, Piles
  <2>. QED
    BY <2>1, <2>2, <2>3
<1>. QED
  BY <1>1, DealtInvariant, PTL DEF Spec, NoCardLost
-----------------------------------------------------------------------------
(* The gold: what is broadcast is what moves.                              *)

(* What a client makes of its note of the gold of player n at an event.    *)
Account(n) ==
    [x \in Int \X Update |->
        IF x[2].nickname # n THEN x[1]
        ELSE CASE x[2].type = "SetGold" -> x[2].value
               [] x[2].type = "Earn"    -> x[1] + x[2].value
               [] x[2].type = "Pay"     -> x[1] - x[2].value
               [] OTHER                 -> x[1]]

LEMMA AccountType == ASSUME NEW n PROVE Account(n) \in [Int \X Update -> Int]
<1>. DEFINE At(gold, e) == IF e.nickname # n THEN gold
                           ELSE CASE e.type = "SetGold" -> e.value
                                  [] e.type = "Earn"    -> gold + e.value
                                  [] e.type = "Pay"     -> gold - e.value
                                  [] OTHER              -> gold
<1>1. ASSUME NEW x \in Int \X Update PROVE At(x[1], x[2]) \in Int
  <2>1. x[1] \in Int /\ x[2] \in Update
    OBVIOUS
  <2>2. x[2].value \in Int
    BY <2>1 DEF Update
  <2>. QED
    BY <2>1, <2>2
<1>2. Account(n) = [x \in Int \X Update |-> At(x[1], x[2])]
  BY DEF Account
<1>. HIDE DEF At
<1>. QED
  BY <1>1, <1>2

LEMMA ReplayedIsFold ==
    ASSUME NEW es \in Seq(Update), NEW n, NEW c \in Int
    PROVE  Replayed(es, n, c) = Folded(Account(n), c, es)
<1>. DEFINE Entry(gold, e) == IF e.nickname # n THEN gold
                              ELSE CASE e.type = "SetGold" -> e.value
                                     [] e.type = "Earn"    -> gold + e.value
                                     [] e.type = "Pay"     -> gold - e.value
                                     [] OTHER              -> gold
            len == Len(es)
            Rec(it) == it = [s \in SUBSET (1..len) |->
                          IF s = {} THEN c
                          ELSE Entry(it[s \ {Max(s)}], es[Max(s)])]
            iter == CHOOSE it : Rec(it)
<1>1. DOMAIN es = 1..len /\ len \in Nat /\ \A i \in 1..len : es[i] \in Update
  OBVIOUS
<1>2. Replayed(es, n, c) = iter[1..len]
  BY <1>1 DEF Replayed, FoldLeft, MapThenFoldSet
<1>3. Account(n) \in [Int \X Update -> Int]
  BY AccountType
<1>4. \A x \in Int, e \in Update : Account(n)[<< x, e >>] = Entry(x, e)
  BY DEF Account
<1>. HIDE DEF Entry
<1>5. PICK g \in [SUBSET (1..len) -> Int] : FoldsTo(g, len, Account(n), c, es)
  BY <1>3, FoldExists
<1>6. \A s \in SUBSET (1..len) : s # {} =>
        /\ Max(s) \in 1..len /\ es[Max(s)] \in Update
        /\ s \ {Max(s)} \in SUBSET (1..len)
  BY <1>1, MaxOf
<1>7. Rec(g)
  <2>1. ASSUME NEW s \in SUBSET (1..len)
        PROVE  g[s] = IF s = {} THEN c ELSE Entry(g[s \ {Max(s)}], es[Max(s)])
    BY <1>4, <1>5, <1>6 DEF FoldsTo
  <2>. QED
    BY <2>1
<1>8. Rec(iter)
  <2>. HIDE DEF Rec
  <2>. QED
    BY <1>7
<1>. DEFINE more == [p \in (Int \cup {iter[s] : s \in SUBSET (1..len)}) \X Update |->
                       Entry(p[1], p[2])]
<1>. HIDE DEF iter
<1>9. FoldsTo(iter, len, more, c, es)
  <2>1. ASSUME NEW s \in SUBSET (1..len), s # {}
        PROVE  more[<< iter[s \ {Max(s)}], es[Max(s)] >>]
                  = Entry(iter[s \ {Max(s)}], es[Max(s)])
    BY <1>6, <2>1
  <2>. HIDE DEF more
  <2>. QED
    BY <1>8, <2>1 DEF FoldsTo
<1>10. \A x \in Int, e \in Update : more[<< x, e >>] = Account(n)[<< x, e >>]
  <2>1. \A x \in Int, e \in Update : more[<< x, e >>] = Entry(x, e)
    OBVIOUS
  <2>. HIDE DEF more
  <2>. QED
    BY <1>4, <2>1
<1>. HIDE DEF more
<1>11. iter[1..Len(es)] = Folded(Account(n), c, es)
  <2>1. IsStep(Account(n), Int, Update) /\ SameSteps(more, Account(n), Int, Update)
    BY <1>3, <1>10 DEF IsStep, SameSteps
  <2>2. FoldsTo(iter, Len(es), more, c, es)
    BY <1>9
  <2>. QED
    BY <2>1, <2>2, FoldsToFolded, SMT
<1>. QED
  BY <1>2, <1>11

(* An event that moves no gold of player n.                                *)
Silent(e, n) == e.nickname # n \/ e.type \notin {"SetGold", "Earn", "Pay"}

LEMMA AccountAt ==
    ASSUME NEW e \in Update, NEW n, NEW c \in Int
    PROVE  /\ Silent(e, n) => Account(n)[<< c, e >>] = c
           /\ e.nickname = n /\ e.type = "SetGold"
                => Account(n)[<< c, e >>] = e.value
           /\ e.nickname = n /\ e.type = "Earn"
                => Account(n)[<< c, e >>] = c + e.value
           /\ e.nickname = n /\ e.type = "Pay"
                => Account(n)[<< c, e >>] = c - e.value
<1>1. Account(n)[<< c, e >>] =
        IF e.nickname # n THEN c
        ELSE CASE e.type = "SetGold" -> e.value
               [] e.type = "Earn"    -> c + e.value
               [] e.type = "Pay"     -> c - e.value
               [] OTHER              -> c
  BY DEF Account
<1>. QED
  BY <1>1 DEF Silent

LEMMA SilentFold ==
    ASSUME NEW es \in Seq(Update), NEW n, NEW c \in Int,
           \A k \in 1..Len(es) : Silent(es[k], n)
    PROVE  Folded(Account(n), c, es) = c
<1>. DEFINE S == [k \in 0..Len(es) |-> {c}]
<1>1. \A k \in 1..Len(es) : Account(n)[<< c, es[k] >>] = c
  <2>1. \A k \in 1..Len(es) : es[k] \in Update
    OBVIOUS
  <2>. QED
    BY <2>1, AccountAt
<1>2. Len(es) \in Nat /\ \A k \in 0..Len(es) : S[k] = {c}
  OBVIOUS
<1>. HIDE DEF S
<1>3. \A k \in 1..Len(es) : \A x \in Int :
         x \in S[k - 1] => Account(n)[<< x, es[k] >>] \in S[k]
  BY <1>1, <1>2
<1>4. c \in S[0]
  BY <1>2
<1>5. Folded(Account(n), c, es) \in S[Len(es)]
  BY <1>3, <1>4, AccountType, FoldedIn
<1>. QED
  BY <1>2, <1>5

LEMMA OneEntry ==
    ASSUME NEW es \in Seq(Update), NEW n, NEW c \in Int, NEW j \in 1..Len(es),
           \A k \in 1..Len(es) : k # j => Silent(es[k], n),
           NEW d \in Int, Account(n)[<< c, es[j] >>] = d
    PROVE  Folded(Account(n), c, es) = d
<1>. DEFINE S == [k \in 0..Len(es) |-> {IF k < j THEN c ELSE d}]
<1>1. \A k \in 1..Len(es) : k # j => /\ Account(n)[<< c, es[k] >>] = c
                                     /\ Account(n)[<< d, es[k] >>] = d
  <2>1. \A k \in 1..Len(es) : es[k] \in Update
    OBVIOUS
  <2>. QED
    BY <2>1, AccountAt
<1>2. /\ Len(es) \in Nat
      /\ \A k \in 0..Len(es) : S[k] = {IF k < j THEN c ELSE d}
  OBVIOUS
<1>. HIDE DEF S
<1>3. \A k \in 1..Len(es) : \A x \in Int :
         x \in S[k - 1] => Account(n)[<< x, es[k] >>] \in S[k]
  <2>1. \A k \in 1..Len(es) :
           \/ k # j /\ S[k - 1] = {c} /\ S[k] = {c}
           \/ k = j /\ S[k - 1] = {c} /\ S[k] = {d}
           \/ k # j /\ S[k - 1] = {d} /\ S[k] = {d}
    <3>1. \A k \in 1..Len(es) : k \in 0..Len(es) /\ k - 1 \in 0..Len(es)
      BY <1>2
    <3>. QED
      BY <1>2, <3>1
  <2>2. Account(n)[<< c, es[j] >>] = d
    OBVIOUS
  <2>. QED
    BY <1>1, <2>1, <2>2
<1>4. c \in S[0]
  BY <1>2
<1>5. Folded(Account(n), c, es) \in S[Len(es)]
  BY <1>3, <1>4, AccountType, FoldedIn
<1>. QED
  BY <1>2, <1>5

(* A step of a handler moves the gold that the events it adds say.         *)
Posts(m, r) ==
    /\ Nicknames(r.players) = Nicknames(m.players)
    /\ \E es \in Seq(Update) :
        /\ r.updateEvent = m.updateEvent \o es
        /\ \A i \in 1..Len(m.players) :
              r.players[i].gold =
                Folded(Account(m.players[i].name), m.players[i].gold, es)

LEMMA NamesStay ==
    ASSUME NEW ps \in Seq(PlayerType), NEW qs \in Seq(PlayerType),
           Nicknames(qs) = Nicknames(ps)
    PROVE  Len(qs) = Len(ps) /\ \A i \in 1..Len(ps) : qs[i].name = ps[i].name
<1>1. Len(ps) \in Nat /\ Len(qs) \in Nat
  OBVIOUS
<1>2. DOMAIN Nicknames(ps) = 1..Len(ps) /\ DOMAIN Nicknames(qs) = 1..Len(qs)
  BY DEF Nicknames
<1>3. Len(qs) = Len(ps)
  BY <1>1, <1>2
<1>4. \A i \in 1..Len(ps) : Nicknames(ps)[i] = ps[i].name
                            /\ Nicknames(qs)[i] = qs[i].name
  BY <1>3 DEF Nicknames
<1>. QED
  BY <1>3, <1>4

LEMMA PostsMore ==
    ASSUME NEW m, MatchType(m), NEW n, MatchType(n), NEW r, Posts(m, n), Posts(n, r)
    PROVE  Posts(m, r)
<1>1. PICK s \in Seq(Update) :
        /\ n.updateEvent = m.updateEvent \o s
        /\ \A i \in 1..Len(m.players) :
              n.players[i].gold =
                Folded(Account(m.players[i].name), m.players[i].gold, s)
  BY DEF Posts
<1>2. PICK t \in Seq(Update) :
        /\ r.updateEvent = n.updateEvent \o t
        /\ \A i \in 1..Len(n.players) :
              r.players[i].gold =
                Folded(Account(n.players[i].name), n.players[i].gold, t)
  BY DEF Posts
<1>3. /\ m.players \in Seq(PlayerType) /\ n.players \in Seq(PlayerType)
      /\ m.updateEvent \in Seq(Update)
  BY DEF MatchType
<1>4. Len(n.players) = Len(m.players)
      /\ \A i \in 1..Len(m.players) : n.players[i].name = m.players[i].name
  BY <1>3, NamesStay DEF Posts
<1>5. r.updateEvent = m.updateEvent \o (s \o t) /\ s \o t \in Seq(Update)
  <2>1. /\ (m.updateEvent \o s) \o t = m.updateEvent \o (s \o t)
        /\ s \o t \in Seq(Update)
    BY <1>3, ThreeParts, Zenon
  <2>2. r.updateEvent = (m.updateEvent \o s) \o t
    BY <1>1, <1>2, Zenon
  <2>. QED
    BY <2>1, <2>2, Zenon
<1>6. ASSUME NEW i \in 1..Len(m.players)
      PROVE  r.players[i].gold =
                Folded(Account(m.players[i].name), m.players[i].gold, s \o t)
  <2>. DEFINE step == Account(m.players[i].name)
              c == m.players[i].gold
  <2>1. c \in Int
    <3>1. m.players[i] \in PlayerType
      BY <1>3, ElementOfSeq
    <3>. QED
      BY <3>1 DEF PlayerType
  <2>2. IsStep(step, Int, Update)
    BY AccountType DEF IsStep
  <2>. HIDE DEF step, c
  <2>3. Folded(step, c, s \o t) = Folded(step, Folded(step, c, s), t)
    BY <2>1, <2>2, FoldedConcat, SMT
  <2>4. r.players[i].gold = Folded(step, n.players[i].gold, t)
    BY <1>2, <1>4 DEF step
  <2>5. n.players[i].gold = Folded(step, c, s)
    BY <1>1 DEF step, c
  <2>. QED
    BY <2>3, <2>4, <2>5 DEF step, c
<1>. QED
  BY <1>5, <1>6 DEF Posts

(* Steps that move no gold, and say nothing of it.                         *)
LEMMA PostsNothing ==
    ASSUME NEW m, MatchType(m), NEW r,
           Nicknames(r.players) = Nicknames(m.players),
           SameGold(m.players, r.players), NEW es \in Seq(Update),
           r.updateEvent = m.updateEvent \o es,
           \A k \in 1..Len(es) : es[k].type \notin {"SetGold", "Earn", "Pay"}
    PROVE  Posts(m, r)
<1>1. ASSUME NEW i \in 1..Len(m.players)
      PROVE  r.players[i].gold =
                Folded(Account(m.players[i].name), m.players[i].gold, es)
  <2>1. m.players[i] \in PlayerType
    BY ElementOfSeq DEF MatchType
  <2>2. m.players[i].gold \in Int
    BY <2>1 DEF PlayerType
  <2>3. r.players[i].gold = m.players[i].gold
    BY DEF SameGold
  <2>4. \A k \in 1..Len(es) : Silent(es[k], m.players[i].name)
    BY DEF Silent
  <2>. QED
    BY <2>2, <2>3, <2>4, SilentFold
<1>. QED
  BY <1>1 DEF Posts

LEMMA PostsSilence ==
    ASSUME NEW m, MatchType(m), NEW r, r.updateEvent = m.updateEvent,
           Nicknames(r.players) = Nicknames(m.players),
           SameGold(m.players, r.players)
    PROVE  Posts(m, r)
<1>1. m.updateEvent \o <<>> = m.updateEvent /\ <<>> \in Seq(Update)
  BY ConcatEmptySeq DEF MatchType
<1>2. \A k \in 1..Len(<<>>) : <<>>[k].type \notin {"SetGold", "Earn", "Pay"}
  OBVIOUS
<1>3. r.updateEvent = m.updateEvent \o <<>>
  BY <1>1
<1>. QED
  BY <1>1, <1>2, <1>3, PostsNothing

LEMMA TurnStartPosts ==
    ASSUME NEW m, Playing(m), m.currentPhase = "TurnStart"
    PROVE  Posts(m, OnTurnStartPhase(m))
<1>. DEFINE r == OnTurnStartPhase(m)
<1>1. MatchType(m) /\ MatchType(r)
  BY TurnStartSound DEF Playing, Sound
<1>2. /\ r.players = m.players
      /\ \/ r.updateEvent = m.updateEvent
         \/ r.updateEvent = m.updateEvent \o Drawn(r.cardsInAuction)
  BY TurnStartResult
<1>3. /\ Drawn(r.cardsInAuction) \in Seq(Update)
      /\ \A k \in 1..Len(Drawn(r.cardsInAuction)) :
            Drawn(r.cardsInAuction)[k].type = "Draw"
  <2>1. r.cardsInAuction \in Seq(Card)
    BY <1>1 DEF MatchType
  <2>. HIDE DEF r
  <2>. QED
    BY <2>1, DrawnType, EventSays
<1>. HIDE DEF r
<1>4. SameGold(m.players, r.players)
  BY <1>2 DEF SameGold
<1>5. CASE r.updateEvent = m.updateEvent
  BY <1>1, <1>2, <1>4, <1>5, PostsSilence DEF r
<1>6. CASE r.updateEvent = m.updateEvent \o Drawn(r.cardsInAuction)
  <2>1. Posts(m, r)
    BY <1>1, <1>2, <1>3, <1>4, <1>6, PostsNothing
  <2>. QED
    BY <2>1 DEF r
<1>. QED
  BY <1>2, <1>5, <1>6

LEMMA GameEndPosts ==
    ASSUME NEW m, Playing(m), m.currentPhase = "GameEnd"
    PROVE  Posts(m, OnGameEndPhase(m))
<1>. DEFINE r == OnGameEndPhase(m)
<1>1. MatchType(m)
  BY DEF Playing, Sound
<1>2. r.players = m.players /\ r.updateEvent = m.updateEvent \o Won(m)
  BY GameEndResult
<1>3. /\ Won(m) \in Seq(Update)
      /\ \A k \in 1..Len(Won(m)) : Won(m)[k].type = "Winner"
  BY <1>1, WonType, EventSays
<1>. HIDE DEF r
<1>4. SameGold(m.players, r.players)
  BY <1>2 DEF SameGold
<1>5. Posts(m, r)
  BY <1>1, <1>2, <1>3, <1>4, PostsNothing
<1>. QED
  BY <1>5 DEF r

LEMMA AttackPosts ==
    ASSUME NEW m, Playing(m), m.currentPhase = "Attack", m.cardsInAuction # <<>>
    PROVE  Posts(m, OnAttackPhase(m))
<1>. DEFINE r == OnAttackPhase(m)
            w == GetCurrentWinner(m)
            won == IsThereWinner(m) /\ WinnerIndices(m) # {}
            card == Head(m.cardsInAuction)
            got == AddCard(m.players[w], card)
            event == Event("GetCard", NameAt(m, w), 0)
<1>1. MatchType(m) /\ m.players \in Seq(PlayerType) /\ m.cardsInAuction \in Seq(Card)
      /\ m.updateEvent \in Seq(Update)
  BY DEF Playing, Sound, MatchType
<1>2. Nicknames(r.players) = Nicknames(m.players)
  BY AttackKeeps DEF Keeps
<1>3. CASE ~won
  <2>1. r.players = ResetAll(m.players) /\ r.updateEvent = m.updateEvent
    BY <1>3, AttackResult
  <2>. HIDE DEF r
  <2>2. SameGold(m.players, r.players)
    BY <1>1, <2>1, ResetGold
  <2>3. Posts(m, r)
    BY <1>1, <1>2, <2>1, <2>2, PostsSilence
  <2>. QED
    BY <2>3 DEF r
<1>4. CASE won
  <2>1. /\ w \in 1..Len(m.players) /\ m.players[w] \in PlayerType
        /\ r.players = ResetAll([m.players EXCEPT ![w] = got])
        /\ r.updateEvent = Append(m.updateEvent, event)
    BY <1>4, AttackResult
  <2>2. got \in PlayerType /\ got.gold = m.players[w].gold
    <3>1. card \in Card
      BY <1>1
    <3>. QED
      BY <2>1, <3>1, AddCardType
  <2>. HIDE DEF r, got, w, event
  <2>3. SameGold(m.players, r.players)
    <3>1. \A i \in 1..Len(m.players) :
             ResetAll([m.players EXCEPT ![w] = got])[i].gold =
                IF i = w THEN got.gold ELSE m.players[i].gold
      BY <1>1, <2>1, <2>2, ReplacedGold, Zenon
    <3>2. \A i \in 1..Len(m.players) : r.players[i].gold = m.players[i].gold
      BY <2>1, <2>2, <3>1
    <3>. QED
      BY <3>2 DEF SameGold
  <2>4. << event >> \in Seq(Update) /\ event.type = "GetCard"
    BY <1>1, <2>1, NameIsTyped, EventIsUpdate, EventSays DEF event, EventType
  <2>5. r.updateEvent = m.updateEvent \o << event >>
    BY <1>1, <2>1, <2>4
  <2>6. Posts(m, r)
    <3>1. \A k \in 1..Len(<< event >>) :
             << event >>[k].type \notin {"SetGold", "Earn", "Pay"}
      BY <2>4
    <3>. QED
      BY <1>1, <1>2, <2>3, <2>4, <2>5, <3>1, PostsNothing
  <2>. QED
    BY <2>6 DEF r
<1>. QED
  BY <1>3, <1>4

LEMMA AuctionPosts ==
    ASSUME NEW m, Playing(m), Distinct(m.players), m.currentPhase = "Auction",
           m.cardsInAuction # <<>>
    PROVE  Posts(m, OnAuctionPhase(m))
<1>. DEFINE r == OnAuctionPhase(m)
            w == GetCurrentWinner(m)
            sold == IsThereWinner(m) /\ WinnerIndices(m) # {}
            card == Head(m.cardsInAuction)
            got == Pay(AddCard(m.players[w], card), m.currentOffer)
            pay == Event("Pay", NameAt(m, w), m.currentOffer)
            get == Event("GetCard", NameAt(m, w), 0)
            es == << pay, get >>
<1>1. MatchType(m) /\ m.players \in Seq(PlayerType) /\ m.cardsInAuction \in Seq(Card)
      /\ m.updateEvent \in Seq(Update) /\ m.currentOffer \in Nat
  BY DEF Playing, Sound, MatchType
<1>2. Nicknames(r.players) = Nicknames(m.players)
  BY AuctionKeeps DEF Keeps
<1>3. CASE ~sold
  <2>1. r.players = ResetAll(m.players) /\ r.updateEvent = m.updateEvent
    BY <1>3, AuctionResult
  <2>. HIDE DEF r
  <2>2. SameGold(m.players, r.players)
    BY <1>1, <2>1, ResetGold
  <2>3. Posts(m, r)
    BY <1>1, <1>2, <2>1, <2>2, PostsSilence
  <2>. QED
    BY <2>3 DEF r
<1>4. CASE sold
  <2>1. /\ w \in 1..Len(m.players) /\ m.players[w] \in PlayerType
        /\ m.currentOffer <= m.players[w].gold
        /\ r.players = ResetAll([m.players EXCEPT ![w] = got])
        /\ r.updateEvent = m.updateEvent \o es
    BY <1>4, AuctionResult
  <2>2. got \in PlayerType /\ got.gold = m.players[w].gold - m.currentOffer
    <3>. DEFINE p == AddCard(m.players[w], card)
    <3>1. card \in Card
      BY <1>1
    <3>2. p \in PlayerType /\ p.gold = m.players[w].gold
      BY <2>1, <3>1, AddCardType
    <3>. HIDE DEF p
    <3>3. Pay(p, m.currentOffer) \in PlayerType
          /\ Pay(p, m.currentOffer).gold = p.gold - m.currentOffer
      BY <1>1, <2>1, <3>2, PayType DEF Pay, PlayerType
    <3>. QED
      BY <3>2, <3>3 DEF p
  <2>. HIDE DEF r, got, w
  <2>3. /\ pay \in Update /\ get \in Update
        /\ pay.type = "Pay" /\ pay.nickname = m.players[w].name
        /\ pay.value = m.currentOffer /\ get.type = "GetCard"
    BY <1>1, <2>1, NameIsTyped, EventIsUpdate, EventSays DEF EventType, NameAt
  <2>. HIDE DEF pay, get
  <2>4. es \in Seq(Update) /\ Len(es) = 2 /\ es[1] = pay /\ es[2] = get
    BY <2>3
  <2>. HIDE DEF es
  <2>5. ASSUME NEW i \in 1..Len(m.players)
        PROVE  r.players[i].gold =
                 Folded(Account(m.players[i].name), m.players[i].gold, es)
    <3>0. m.players[i] \in PlayerType
      BY <1>1, ElementOfSeq
    <3>1. m.players[i].gold \in Int
      BY <3>0 DEF PlayerType
    <3>2. r.players[i].gold = IF i = w THEN got.gold ELSE m.players[i].gold
      <4>1. \A j \in 1..Len(m.players) :
               ResetAll([m.players EXCEPT ![w] = got])[j].gold =
                  IF j = w THEN got.gold ELSE m.players[j].gold
        BY <1>1, <2>1, <2>2, ReplacedGold, Zenon
      <4>. QED
        BY <2>1, <4>1
    <3>3. CASE i = w
      <4>1. Account(m.players[i].name)[<< m.players[i].gold, pay >>]
              = m.players[i].gold - m.currentOffer
        BY <2>3, <3>1, <3>3, AccountAt
      <4>2. \A k \in 1..Len(es) : k # 1 => Silent(es[k], m.players[i].name)
        BY <2>3, <2>4 DEF Silent
      <4>3. m.players[i].gold - m.currentOffer \in Int /\ 1 \in 1..Len(es)
        BY <1>1, <2>4, <3>1
      <4>4. Folded(Account(m.players[i].name), m.players[i].gold, es)
              = m.players[i].gold - m.currentOffer
        BY <2>4, <3>1, <4>1, <4>2, <4>3, OneEntry
      <4>. QED
        BY <2>2, <3>2, <3>3, <4>4
    <3>4. CASE i # w
      <4>1. m.players[i].name # m.players[w].name
        BY <2>1, <3>4 DEF Distinct
      <4>2. \A k \in 1..Len(es) : Silent(es[k], m.players[i].name)
        BY <2>3, <2>4, <4>1 DEF Silent
      <4>. QED
        BY <2>4, <3>1, <3>2, <3>4, <4>2, SilentFold
    <3>. QED
      BY <3>3, <3>4
  <2>6. Posts(m, r)
    BY <1>2, <2>1, <2>4, <2>5 DEF Posts
  <2>. QED
    BY <2>6 DEF r
<1>. QED
  BY <1>3, <1>4

LEMMA TurnEndPosts ==
    ASSUME NEW m, Playing(m), Distinct(m.players), m.currentPhase = "TurnEnd"
    PROVE  Posts(m, OnTurnEndPhase(m))
<1>. DEFINE r == OnTurnEndPhase(m)
            ps == m.players
            event == Event("IsAuctioneer", NameAt(m, After(m) + 1), 0)
            es == Produced(ps) \o << event >>
<1>1. MatchType(m) /\ ps \in Seq(PlayerType) /\ m.updateEvent \in Seq(Update)
  BY DEF Playing, Sound, MatchType
<1>2. Nicknames(r.players) = Nicknames(ps)
  BY TurnEndKeeps DEF Keeps
<1>3. /\ r.updateEvent = (m.updateEvent \o Produced(ps)) \o << event >>
      /\ After(m) + 1 \in 1..Len(ps)
      /\ \A i \in 1..Len(ps) :
            r.players[i].gold = ps[i].gold + TotalProduction(Hand(ps, i))
  BY TurnEndResult
<1>. HIDE DEF r
<1>4. event \in Update /\ << event >> \in Seq(Update) /\ event.type = "IsAuctioneer"
  BY <1>1, <1>3, NameIsTyped, EventIsUpdate, EventSays DEF EventType
<1>. HIDE DEF event
<1>5. /\ Produced(ps) \in Seq(Update) /\ Len(Produced(ps)) = Len(ps)
      /\ \A k \in 1..Len(ps) : /\ Produced(ps)[k].type = "Earn"
                                /\ Produced(ps)[k].nickname = ps[k].name
                                /\ Produced(ps)[k].value =
                                      TotalProduction(Hand(ps, k))
  BY <1>1, ProducedType, EventSays
<1>6. /\ es \in Seq(Update) /\ Len(es) = Len(ps) + 1
      /\ \A k \in 1..Len(ps) : es[k] = Produced(ps)[k]
      /\ es[Len(ps) + 1] = event
  <2>. DEFINE a == Produced(ps)
  <2>1. a \in Seq(Update) /\ Len(a) = Len(ps)
    BY <1>5
  <2>. HIDE DEF a, ps
  <2>2. /\ a \o << event >> \in Seq(Update) /\ Len(a \o << event >>) = Len(a) + 1
        /\ \A k \in 1..Len(a) : (a \o << event >>)[k] = a[k]
        /\ (a \o << event >>)[Len(a) + 1] = event
    BY <1>4, <2>1
  <2>. QED
    BY <2>1, <2>2 DEF a
<1>7. r.updateEvent = m.updateEvent \o es
  BY <1>1, <1>3, <1>4, <1>5, ThreeParts
<1>. HIDE DEF es, ps
<1>8. ASSUME NEW i \in 1..Len(ps)
      PROVE  r.players[i].gold = Folded(Account(ps[i].name), ps[i].gold, es)
  <2>1. ps[i] \in PlayerType
    BY <1>1, ElementOfSeq
  <2>2. ps[i].gold \in Int /\ TotalProduction(Hand(ps, i)) \in Int
    BY <2>1, TotalsAssumption DEF PlayerType, Hand, Owned
  <2>3. Account(ps[i].name)[<< ps[i].gold, es[i] >>]
          = ps[i].gold + TotalProduction(Hand(ps, i))
    <3>1. Produced(ps)[i] \in Update
      BY <1>5, ElementOfSeq
    <3>. DEFINE e == Produced(ps)[i]
                t == TotalProduction(Hand(ps, i))
    <3>2. /\ es[i] = e /\ e \in Update /\ e.type = "Earn"
          /\ e.nickname = ps[i].name /\ e.value = t /\ t \in Int
      BY <1>5, <1>6, <2>2, <3>1
    <3>. HIDE DEF e, t
    <3>3. Account(ps[i].name)[<< ps[i].gold, e >>] = ps[i].gold + t
      BY <2>2, <3>2, AccountAt
    <3>. QED
      BY <3>2, <3>3 DEF t
  <2>4. \A k \in 1..Len(es) : k # i => Silent(es[k], ps[i].name)
    <3>1. \A k \in 1..Len(ps) : k # i => ps[k].name # ps[i].name
      BY DEF Distinct, ps
    <3>2. \A k \in 1..Len(es) : k \in 1..Len(ps) \/ k = Len(ps) + 1
      BY <1>1, <1>6
    <3>. QED
      BY <1>4, <1>5, <1>6, <3>1, <3>2 DEF Silent
  <2>5. i \in 1..Len(es)
        /\ ps[i].gold + TotalProduction(Hand(ps, i)) \in Int
    BY <1>1, <1>6, <2>2
  <2>6. Folded(Account(ps[i].name), ps[i].gold, es)
          = ps[i].gold + TotalProduction(Hand(ps, i))
    <3>. DEFINE n == ps[i].name
                c == ps[i].gold
                d == ps[i].gold + TotalProduction(Hand(ps, i))
    <3>1. /\ c \in Int /\ d \in Int /\ es \in Seq(Update) /\ i \in 1..Len(es)
          /\ Account(n)[<< c, es[i] >>] = d
          /\ \A k \in 1..Len(es) : k # i => Silent(es[k], n)
      BY <1>6, <2>2, <2>3, <2>4, <2>5
    <3>. HIDE DEF n, c, d
    <3>2. Folded(Account(n), c, es) = d
      BY <3>1, OneEntry, Zenon
    <3>. QED
      BY <3>2 DEF n, c, d
  <2>. QED
    BY <1>3, <2>6
<1>9. Posts(m, r)
  BY <1>2, <1>6, <1>7, <1>8 DEF Posts, ps
<1>. QED
  BY <1>9 DEF r

LEMMA OnPhasePosts ==
    ASSUME NEW m, Playing(m), Distinct(m.players)
    PROVE  Posts(m, OnPhase(m)) /\ Distinct(OnPhase(m).players)
<1>1. MatchType(m)
  BY DEF Playing, Sound
<1>2. Posts(m, OnPhase(m))
  <2>1. CASE Resting(m)
    <3>1. OnPhase(m) = m /\ SameGold(m.players, m.players)
      BY <2>1, RestingStays DEF SameGold
    <3>. QED
      BY <1>1, <3>1, PostsSilence
  <2>2. CASE ~Resting(m)
    <3>1. m.currentPhase \in {"TurnStart", "Attack", "Auction", "TurnEnd", "GameEnd"}
      BY <1>1, <2>2 DEF MatchType, Phase, Resting, Playing, Sound
    <3>2. m.currentPhase \in {"Attack", "Auction"} => m.cardsInAuction # <<>>
      BY DEF Playing, Sound
    <3>. QED
      BY <2>2, <3>1, <3>2, PhaseMethod, TurnStartPosts, AttackPosts,
         AuctionPosts, TurnEndPosts, GameEndPosts
  <2>. QED
    BY <2>1, <2>2
<1>3. Distinct(OnPhase(m).players)
  <2>1. OnPhase(m).players \in Seq(PlayerType) /\ m.players \in Seq(PlayerType)
    BY OnPhaseSound DEF Playing, Sound, MatchType
  <2>. QED
    BY <1>2, <2>1, SameNamesDistinct DEF Posts
<1>. QED
  BY <1>2, <1>3

LEMMA ProcessPhasePosts ==
    ASSUME NEW m, Playing(m), Distinct(m.players)
    PROVE  Posts(m, ProcessPhase(m))
<1>1. PICK m1, m2, m3, m4 :
         /\ m1 = OnPhase(m) /\ Playing(m1)
         /\ m2 = OnPhase(m1) /\ Playing(m2)
         /\ m3 = OnPhase(m2) /\ Playing(m3)
         /\ m4 = OnPhase(m3) /\ Playing(m4)
         /\ ProcessPhase(m) = OnPhase(m4)
  BY FivePhases
<1>2. MatchType(m) /\ MatchType(m1) /\ MatchType(m2) /\ MatchType(m3) /\ MatchType(m4)
  BY <1>1 DEF Playing, Sound
<1>3. Posts(m, m1) /\ Distinct(m1.players)
  BY <1>1, OnPhasePosts
<1>4. Posts(m1, m2) /\ Distinct(m2.players)
  BY <1>1, <1>3, OnPhasePosts
<1>5. Posts(m2, m3) /\ Distinct(m3.players)
  BY <1>1, <1>4, OnPhasePosts
<1>6. Posts(m3, m4) /\ Distinct(m4.players)
  BY <1>1, <1>5, OnPhasePosts
<1>7. Posts(m4, ProcessPhase(m))
  BY <1>1, <1>6, OnPhasePosts
<1>8. Posts(m, m2)
  BY <1>2, <1>3, <1>4, PostsMore
<1>9. Posts(m, m3)
  BY <1>2, <1>5, <1>8, PostsMore
<1>10. Posts(m, m4)
  BY <1>2, <1>6, <1>9, PostsMore
<1>. QED
  BY <1>2, <1>7, <1>10, PostsMore

(* A step of a handler whose update says all of what it does to the gold.  *)
Tells(m, r) ==
    /\ Nicknames(r.players) = Nicknames(m.players)
    /\ \A i \in 1..Len(m.players) :
          r.players[i].gold =
            Folded(Account(m.players[i].name), m.players[i].gold, r.updateEvent)

LEMMA TellsMore ==
    ASSUME NEW m, MatchType(m), NEW n, MatchType(n), NEW r, Tells(m, n), Posts(n, r)
    PROVE  Tells(m, r)
<1>1. PICK t \in Seq(Update) :
        /\ r.updateEvent = n.updateEvent \o t
        /\ \A i \in 1..Len(n.players) :
              r.players[i].gold =
                Folded(Account(n.players[i].name), n.players[i].gold, t)
  BY DEF Posts
<1>2. /\ m.players \in Seq(PlayerType) /\ n.players \in Seq(PlayerType)
      /\ n.updateEvent \in Seq(Update)
  BY DEF MatchType
<1>3. Len(n.players) = Len(m.players)
      /\ \A i \in 1..Len(m.players) : n.players[i].name = m.players[i].name
  BY <1>2, NamesStay DEF Tells
<1>4. ASSUME NEW i \in 1..Len(m.players)
      PROVE  r.players[i].gold =
                Folded(Account(m.players[i].name), m.players[i].gold, r.updateEvent)
  <2>. DEFINE step == Account(m.players[i].name)
              c == m.players[i].gold
              s == n.updateEvent
  <2>1. c \in Int
    <3>1. m.players[i] \in PlayerType
      BY <1>2, ElementOfSeq
    <3>. QED
      BY <3>1 DEF PlayerType
  <2>2. IsStep(step, Int, Update) /\ s \in Seq(Update)
    BY <1>2, AccountType DEF IsStep
  <2>. HIDE DEF step, c, s
  <2>3. Folded(step, c, s \o t) = Folded(step, Folded(step, c, s), t)
    BY <2>1, <2>2, FoldedConcat, SMT
  <2>4. r.players[i].gold = Folded(step, n.players[i].gold, t)
    BY <1>1, <1>3 DEF step
  <2>5. n.players[i].gold = Folded(step, c, s)
    BY DEF step, c, s, Tells
  <2>. QED
    BY <1>1, <2>3, <2>4, <2>5 DEF step, c, s
<1>. QED
  BY <1>4 DEF Tells, Posts

LEMMA TellsNothing ==
    ASSUME NEW m, MatchType(m), NEW r, r.updateEvent \in Seq(Update),
           Nicknames(r.players) = Nicknames(m.players),
           SameGold(m.players, r.players),
           \A k \in 1..Len(r.updateEvent) :
              r.updateEvent[k].type \notin {"SetGold", "Earn", "Pay"}
    PROVE  Tells(m, r)
<1>1. ASSUME NEW i \in 1..Len(m.players)
      PROVE  r.players[i].gold =
                Folded(Account(m.players[i].name), m.players[i].gold, r.updateEvent)
  <2>1. m.players[i] \in PlayerType
    BY ElementOfSeq DEF MatchType
  <2>2. m.players[i].gold \in Int
    BY <2>1 DEF PlayerType
  <2>3. r.players[i].gold = m.players[i].gold
    BY DEF SameGold
  <2>4. \A k \in 1..Len(r.updateEvent) : Silent(r.updateEvent[k], m.players[i].name)
    BY DEF Silent
  <2>. QED
    BY <2>2, <2>3, <2>4, SilentFold
<1>. QED
  BY <1>1 DEF Tells

(* An input: refused, or a bid and then what the phases make of it.        *)
LEMMA HandledTells ==
    ASSUME NEW m, Sound(m), Distinct(m.players), NEW r, Handled(m, r)
    PROVE  Tells(m, r)
<1>1. MatchType(m) /\ m.players \in Seq(PlayerType)
  BY DEF Sound, MatchType
<1>2. CASE r = SetError(m)
  <2>1. r.updateEvent = Error /\ r.players = m.players
    BY <1>1, <1>2 DEF MatchType, SetError
  <2>2. Error \in Seq(Update) /\ \A k \in 1..Len(Error) : Error[k].type = "Error"
    BY EventIsUpdate, EventSays DEF Error, EventType
  <2>3. SameGold(m.players, r.players)
    BY <2>1 DEF SameGold
  <2>. HIDE <1>2
  <2>. QED
    BY <1>1, <2>1, <2>2, <2>3, TellsNothing
<1>3. CASE r # SetError(m)
  <2>1. PICK b : Bids(m, b) /\ r = ProcessPhase(b)
    BY <1>3 DEF Handled
  <2>2. PICK i \in 1..Len(m.players) : Says(m, b, i)
    BY <2>1 DEF Bids
  <2>3. PICK type \in {"Attack", "Offer", "Pass"}, gold \in Nat :
           b.updateEvent = << Event(type, NameAt(m, i), gold) >>
    BY <2>2 DEF Says
  <2>. DEFINE event == Event(type, NameAt(m, i), gold)
  <2>4. event \in Update /\ event.type = type
    BY <1>1, NameIsTyped, EventIsUpdate, EventSays DEF EventType
  <2>. HIDE DEF event
  <2>5. /\ b.updateEvent = << event >> /\ b.updateEvent \in Seq(Update)
        /\ \A k \in 1..Len(b.updateEvent) : b.updateEvent[k].type = type
    BY <2>3, <2>4 DEF event
  <2>6. /\ Playing(b) /\ SameGold(m.players, b.players)
        /\ Nicknames(b.players) = Nicknames(m.players)
    BY <2>1, NothingMoves DEF Bids, Keeps
  <2>7. MatchType(b) /\ b.players \in Seq(PlayerType)
    BY <2>6 DEF Playing, Sound, MatchType
  <2>8. Distinct(b.players)
    BY <1>1, <2>6, <2>7, SameNamesDistinct
  <2>9. Tells(m, b)
    BY <1>1, <2>5, <2>6, TellsNothing
  <2>. QED
    BY <1>1, <2>1, <2>6, <2>7, <2>8, <2>9, ProcessPhasePosts, TellsMore
<1>. QED
  BY <1>2, <1>3

(* The opening sets the gold of every player, whatever came before it.     *)
LEMMA OpeningTells ==
    ASSUME NEW m, MatchType(m), Distinct(m.players),
           \A k \in 1..Len(m.updateEvent) : m.updateEvent[k].type = "Error",
           NEW a \in 1..Len(m.players), NEW d
    PROVE  Tells(m, OnGameStartPhase(m, a, d))
<1>. DEFINE r == OnGameStartPhase(m, a, d)
            ps == m.players
            ue == m.updateEvent
            first == Event("IsAuctioneer", NameAt(m, a), 0)
            given == Granted(ps, a)
            es == ue \o Opening(m, a)
            At(i) == Len(ue) + 1 + i
<1>1. ps \in Seq(PlayerType) /\ Len(ps) \in Nat /\ ue \in Seq(Update)
  BY DEF MatchType
<1>2. /\ SameHands(ps, r.players) /\ r.updateEvent = es
      /\ \A i \in 1..Len(ps) : r.players[i].gold = StartingGold(i, a)
  BY GameStartResult
<1>3. Nicknames(r.players) = Nicknames(ps)
  BY <1>2, SameHandsKeep
<1>4. first \in Update /\ first.type = "IsAuctioneer"
  BY NameIsTyped, EventIsUpdate, EventSays DEF EventType
<1>5. /\ given \in Seq(Update) /\ Len(given) = Len(ps)
      /\ \A k \in 1..Len(ps) : /\ given[k].type = "SetGold"
                                /\ given[k].nickname = ps[k].name
                                /\ given[k].value = StartingGold(k, a)
  BY <1>1, GrantedType, EventSays
<1>6. \A i : StartingGold(i, a) \in Int
  BY ConfigAssumption DEF StartingGold
<1>. HIDE DEF r, given, first
<1>7. Opening(m, a) = << first >> \o given
  BY DEF Opening, given, first
<1>. HIDE DEF ps, ue
<1>8. /\ es \in Seq(Update) /\ Len(es) = Len(ue) + 1 + Len(ps)
      /\ \A k \in 1..Len(ue) : es[k] = ue[k]
      /\ es[Len(ue) + 1] = first
      /\ \A i \in 1..Len(ps) : es[At(i)] = given[i]
  <2>. DEFINE o == Opening(m, a)
  <2>1. /\ o \in Seq(Update) /\ Len(o) = 1 + Len(ps) /\ o[1] = first
        /\ \A i \in 1..Len(ps) : o[1 + i] = given[i]
    BY <1>1, <1>4, <1>5, <1>7
  <2>. HIDE DEF o
  <2>2. /\ ue \o o \in Seq(Update) /\ Len(ue \o o) = Len(ue) + Len(o)
        /\ \A k \in 1..Len(ue) : (ue \o o)[k] = ue[k]
        /\ \A k \in 1..Len(o) : (ue \o o)[Len(ue) + k] = o[k]
    <3>1. ue \in Seq(Update) /\ o \in Seq(Update)
      BY <1>1, <2>1
    <3>. QED
      BY <3>1
  <2>3. 1 \in 1..Len(o) /\ \A i \in 1..Len(ps) : /\ 1 + i \in 1..Len(o)
                                                  /\ Len(ue) + (1 + i) = At(i)
    BY <1>1, <2>1
  <2>4. \A i \in 1..Len(ps) : (ue \o o)[At(i)] = given[i]
    BY <2>1, <2>2, <2>3
  <2>5. Len(ue) + Len(o) = Len(ue) + 1 + Len(ps)
    BY <1>1, <2>1
  <2>. QED
    BY <2>1, <2>2, <2>3, <2>4, <2>5 DEF o
<1>. HIDE DEF es
<1>9. \A k \in 1..Len(es) : \/ k \in 1..Len(ue)
                             \/ k = Len(ue) + 1
                             \/ \E i \in 1..Len(ps) : k = At(i)
  <2>. SUFFICES ASSUME NEW k \in 1..Len(es), k \notin 1..Len(ue), k # Len(ue) + 1
                PROVE  \E i \in 1..Len(ps) : k = At(i)
    OBVIOUS
  <2>1. k - Len(ue) - 1 \in 1..Len(ps) /\ k = At(k - Len(ue) - 1)
    BY <1>1, <1>8
  <2>. QED
    BY <2>1
<1>10. ASSUME NEW i \in 1..Len(ps)
       PROVE  r.players[i].gold = Folded(Account(ps[i].name), ps[i].gold, es)
  <2>1. ps[i] \in PlayerType
    BY <1>1, ElementOfSeq
  <2>. DEFINE n == ps[i].name
              c == ps[i].gold
              g == StartingGold(i, a)
              j == At(i)
  <2>2. c \in Int /\ g \in Int /\ j \in 1..Len(es)
    BY <1>1, <1>6, <1>8, <2>1 DEF PlayerType
  <2>3. /\ es[j] = given[i] /\ given[i] \in Update
        /\ given[i].type = "SetGold" /\ given[i].nickname = n /\ given[i].value = g
    BY <1>5, <1>8, ElementOfSeq
  <2>4. Account(n)[<< c, es[j] >>] = g
    <3>. DEFINE e == given[i]
    <3>1. /\ e \in Update /\ e.type = "SetGold" /\ e.nickname = n
          /\ e.value = g /\ c \in Int /\ es[j] = e
      BY <2>2, <2>3
    <3>. HIDE DEF e, n, c, g, j
    <3>2. Account(n)[<< c, e >>] = g
      BY <3>1, AccountAt
    <3>. QED
      BY <3>1, <3>2
  <2>5. ASSUME NEW k \in 1..Len(es), k # j PROVE Silent(es[k], n)
    <3>1. CASE k \in 1..Len(ue)
      BY <1>8, <3>1 DEF Silent, ue
    <3>2. CASE k = Len(ue) + 1
      BY <1>4, <1>8, <3>2 DEF Silent
    <3>3. ASSUME NEW x \in 1..Len(ps), k = At(x) PROVE Silent(es[k], n)
      <4>1. x # i
        BY <2>5, <3>3
      <4>2. ps[x].name # n
        BY <4>1 DEF Distinct, ps
      <4>3. es[k] = given[x]
        BY <1>8, <3>3
      <4>. QED
        BY <1>5, <4>2, <4>3 DEF Silent
    <3>. QED
      BY <1>9, <3>1, <3>2, <3>3
  <2>. HIDE DEF n, c, g, j
  <2>6. Folded(Account(n), c, es) = g
    <3>1. es \in Seq(Update) /\ \A k \in 1..Len(es) : k # j => Silent(es[k], n)
      BY <1>8, <2>5
    <3>. QED
      BY <2>2, <2>4, <3>1, OneEntry, Zenon
  <2>. QED
    BY <1>2, <2>6 DEF n, c, g
<1>11. Tells(m, r)
  BY <1>2, <1>3, <1>10 DEF Tells, ps
<1>. QED
  BY <1>11 DEF r

LEMMA StartTells ==
    ASSUME NEW m, Sound(m), Distinct(m.players), m.players # <<>>, Undisputed(m),
           NEW r \in Starts(m)
    PROVE  Tells(m, r)
<1>. DEFINE n == [m EXCEPT !.updateEvent = MovedFrom(m.updateEvent)]
<1>1. MatchType(m)
  BY DEF Sound
<1>2. MatchType(n) /\ n.fault = m.fault /\ n.players = m.players
      /\ n.currentPhase = m.currentPhase /\ n.currentOffer = m.currentOffer
      /\ n.cardsInAuction = m.cardsInAuction
      /\ n.currentAttack = m.currentAttack
      /\ n.updateEvent = MovedFrom(m.updateEvent)
  <2>1. MovedFrom(m.updateEvent) \in Seq(Update)
    BY <1>1 DEF MatchType, MovedFrom
  <2>. QED
    BY <1>1, <2>1 DEF MatchType
<1>3. PICK a \in DOMAIN m.players, d \in Shuffles(m.deck) :
        r = ProcessPhase(OnGameStartPhase(n, a, d))
  BY DEF Starts
<1>4. d \in Seq(Card) /\ DOMAIN m.players = 1..Len(m.players)
  BY <1>1, DeckAssumption DEF Shuffles, MatchType
<1>. HIDE DEF n
<1>5. Sound(n) /\ Undisputed(n)
  BY <1>2 DEF Sound, Covered, Undisputed
<1>6. \A k \in 1..Len(n.updateEvent) : n.updateEvent[k].type = "Error"
  <2>1. \A k \in 1..Len(Error) : Error[k].type = "Error"
    BY EventSays DEF Error
  <2>. QED
    BY <1>2, <2>1 DEF MovedFrom
<1>. DEFINE g == OnGameStartPhase(n, a, d)
<1>7. Playing(g)
  BY <1>2, <1>4, <1>5, GameStartSound
<1>8. Tells(n, g)
  BY <1>2, <1>4, <1>6, OpeningTells
<1>9. Tells(m, g)
  BY <1>2, <1>8 DEF Tells
<1>. HIDE DEF g
<1>10. MatchType(g) /\ g.players \in Seq(PlayerType) /\ m.players \in Seq(PlayerType)
  BY <1>1, <1>7 DEF Playing, Sound, MatchType
<1>11. Distinct(g.players)
  BY <1>9, <1>10, SameNamesDistinct DEF Tells
<1>12. Posts(g, r)
  BY <1>3, <1>7, <1>11, ProcessPhasePosts DEF g
<1>. QED
  BY <1>1, <1>9, <1>10, <1>12, TellsMore

(* The gold of a nickname, by the position of its player.                  *)
LEMMA GoldAt ==
    ASSUME NEW m, MatchType(m), Distinct(m.players), NEW k \in 1..Len(m.players)
    PROVE  GoldOf(m, m.players[k].name) = m.players[k].gold
<1>. DEFINE n == m.players[k].name
            i == GetPlayerIndex(m, n)
<1>1. IsPlayer(m, n)
  BY DEF IsPlayer, NameAt, MatchType
<1>2. i \in 1..Len(m.players) /\ m.players[i].name = n
  BY <1>1, PlayerIndex DEF NameAt
<1>. HIDE DEF i
<1>3. i = k
  BY <1>2 DEF Distinct
<1>. QED
  BY <1>3 DEF GoldOf, i

(* The inductive invariant of the ledger: a match never has more players   *)
(* than it starts with, so that a step after which it is full is not an    *)
(* exit.                                                                   *)
Seated == Dealt /\ Len(match.players) <= NumPlayers

(* A step that broadcasts is the handler of an input or, of the match with *)
(* its new player, the start.                                              *)
Entered(n) ==
    LET joined == AddPlayer(match, n)
    IN  /\ \A i \in 1..Len(match.players) : match.players[i].name # n
        /\ Sound(joined) /\ Undisputed(joined)
        /\ joined.players # <<>> /\ Distinct(joined.players)
        /\ match' \in Starts(joined)

LEMMA StepBroadcasts ==
    ASSUME Seated, [Next]_vars
    PROVE  /\ Len(match'.players) <= NumPlayers
           /\ \/ UNCHANGED vars
              \/ Handled(match, match')
              \/ \E n \in Name : Entered(n)
              \/ Names' # Names /\ ~IsFull'
<1>. USE DEF Alive
<1>1. /\ Sound(match) /\ MatchType(match) /\ Distinct(match.players)
      /\ match.players \in Seq(PlayerType) /\ Len(match.players) \in Nat
      /\ Len(match.players) <= NumPlayers /\ NumPlayers \in Nat
  BY ConfigAssumption DEF Seated, Dealt, Sound, MatchType
<1>2. Sound(match') /\ match'.players \in Seq(PlayerType)
  <2>1. Dealt'
    BY StepDealt DEF Seated
  <2>2. Sound(match')
    BY <2>1 DEF Dealt, Sound, Covered, MatchType, Undisputed, AllReset
  <2>. QED
    BY <2>2 DEF Sound, MatchType
<1>3. ASSUME NEW m, MatchType(m), Keeps(m, match')
      PROVE  Len(match'.players) = Len(m.players)
  <2>1. m.players \in Seq(PlayerType)
    BY <1>3 DEF MatchType
  <2>. QED
    BY <1>2, <1>3, <2>1, NamesStay DEF Keeps
<1>4. CASE UNCHANGED vars
  BY <1>1, <1>4 DEF vars
<1>5. ASSUME NEW n \in Name, Input(n)
      PROVE  Handled(match, match') /\ Len(match'.players) <= NumPlayers
  <2>1. IsPlayer(match, n)
    BY <1>5 DEF Input, Attack, Offer, Pass, Names, NamesOf, IsPlayer
  <2>2. Handled(match, match')
    BY <1>1, <1>5, <2>1, HandleAttackHandled, HandleOfferHandled,
       HandlePassHandled, OfferAssumption DEF Input, Attack, Offer, Pass
  <2>. QED
    BY <1>1, <1>3, <2>2, HandledKeeps
<1>6. ASSUME NEW n \in Name, Leave(n)
      PROVE  Len(match'.players) <= NumPlayers /\ Names' # Names /\ ~IsFull'
  <2>1. IsPlayer(match, n) /\ n \in Names /\ match' = RemovePlayer(match, n)
    BY <1>6 DEF Leave, Names, NamesOf, IsPlayer
  <2>2. Names' = Names \ {n}
    BY <1>1, <2>1, RemovePlayerNames DEF Names
  <2>. DEFINE k == GetPlayerIndex(match, n)
  <2>3. k \in 1..Len(match.players)
    BY <1>1, <2>1, PlayerIndex
  <2>4. match'.players = RemoveAt(match.players, k)
    BY <1>1, <2>1 DEF RemovePlayer, MatchType
  <2>. HIDE DEF k
  <2>5. Len(match'.players) = Len(match.players) - 1
    BY <1>1, <2>3, <2>4, RemovedAt
  <2>6. Len(match'.players) < NumPlayers
    BY <1>1, <2>5
  <2>. QED
    BY <1>1, <1>2, <2>1, <2>2, <2>6 DEF IsFull
<1>7. ASSUME NEW n \in Name, Join(n)
      PROVE  /\ Len(match'.players) <= NumPlayers
             /\ \/ Entered(n)
                \/ Names' # Names /\ ~IsFull'
  <2>. DEFINE joined == AddPlayer(match, n)
  <2>1. match.currentPhase \in {"WaitForStart", "Finished"} /\ n \notin Names
    BY <1>7 DEF Join, IsRunning
  <2>2. \A i \in 1..Len(match.players) : match.players[i].name # n
    BY <2>1, NamesAre DEF Seated
  <2>3. /\ Sound(joined) /\ MatchType(joined) /\ Undisputed(joined)
        /\ joined.players # <<>> /\ Distinct(joined.players)
        /\ NamesOf(joined) = Names \cup {n}
    BY <1>1, <2>1, <2>2, AddPlayerSound, AddPlayerKeeps, AddPlayerNames
       DEF Sound, Names
  <2>4. Len(joined.players) = Len(match.players) + 1
    <3>1. joined.players = Append(match.players, NewPlayer(n))
      BY <1>1 DEF AddPlayer, MatchType
    <3>. QED
      BY <1>1, <3>1, NewPlayerType
  <2>5. Len(match.players) # NumPlayers
    BY <1>7 DEF Join, IsFull
  <2>6. \/ Len(joined.players) = NumPlayers /\ match' \in Starts(joined)
        \/ Len(joined.players) # NumPlayers /\ match' = joined
    BY <1>7 DEF Join
  <2>. HIDE DEF joined
  <2>7. CASE Len(joined.players) = NumPlayers /\ match' \in Starts(joined)
    <3>1. Keeps(joined, match')
      BY <2>3, <2>7, StartKeeps
    <3>2. Len(match'.players) <= NumPlayers
      BY <1>1, <1>3, <2>3, <2>7, <3>1
    <3>. QED
      BY <2>2, <2>3, <2>7, <3>2 DEF joined, Entered
  <2>8. CASE Len(joined.players) # NumPlayers /\ match' = joined
    <3>1. Names' = Names \cup {n}
      BY <2>3, <2>8 DEF Names
    <3>. QED
      BY <1>1, <2>1, <2>4, <2>5, <2>8, <3>1 DEF IsFull
  <2>. QED
    BY <2>6, <2>7, <2>8
<1>. QED
  BY <1>1, <1>4, <1>5, <1>6, <1>7 DEF Next

LEMMA SeatedInvariant == Spec => []Seated
<1>1. Init => Seated
  BY InitDealt, ConfigAssumption DEF Init, NewMatch, Seated
<1>2. Seated /\ [Next]_vars => Seated'
  BY StepDealt, StepBroadcasts DEF Seated
<1>. QED
  BY <1>1, <1>2, PTL DEF Spec

(* The gold of a player of the match after it, replayed from before.       *)
LEMMA LedgerOf ==
    ASSUME NEW m, MatchType(m), Distinct(m.players), NEW r, MatchType(r),
           Distinct(r.players), Tells(m, r), NEW k \in 1..Len(r.players)
    PROVE  /\ k \in 1..Len(m.players) /\ m.players[k].name = r.players[k].name
           /\ GoldOf(r, r.players[k].name) =
                Replayed(r.updateEvent, r.players[k].name, m.players[k].gold)
<1>1. /\ m.players \in Seq(PlayerType) /\ r.players \in Seq(PlayerType)
      /\ r.updateEvent \in Seq(Update)
  BY DEF MatchType
<1>2. Len(r.players) = Len(m.players)
      /\ \A i \in 1..Len(m.players) : r.players[i].name = m.players[i].name
  BY <1>1, NamesStay DEF Tells
<1>3. k \in 1..Len(m.players) /\ m.players[k].name = r.players[k].name
  BY <1>2
<1>4. GoldOf(r, r.players[k].name) = r.players[k].gold
  BY GoldAt
<1>5. r.players[k].gold =
        Folded(Account(m.players[k].name), m.players[k].gold, r.updateEvent)
  BY <1>3 DEF Tells
<1>6. m.players[k].gold \in Int
  <2>1. m.players[k] \in PlayerType
    BY <1>1, <1>3, ElementOfSeq
  <2>. QED
    BY <2>1 DEF PlayerType
<1>. DEFINE n == m.players[k].name
            c == m.players[k].gold
            es == r.updateEvent
<1>. HIDE DEF n, c, es
<1>7. Replayed(es, n, c) = Folded(Account(n), c, es)
  BY <1>1, <1>6, ReplayedIsFold DEF es, c
<1>. QED
  BY <1>3, <1>4, <1>5, <1>7 DEF n, c, es

(* A client that replays what every step broadcasts knows the gold of all. *)
THEOREM GoldIsTold == Spec => LedgerFollowsBroadcast
<1>. DEFINE Ledger == Broadcasts => \A n \in Names' :
                GoldOf(match', n) = Replayed(match'.updateEvent, n,
                    IF n \in Names THEN GoldOf(match, n) ELSE 0)
<1>1. Seated /\ Seated' /\ [Next]_vars => [Ledger]_vars
  <2>. SUFFICES ASSUME Seated, Seated', [Next]_vars, ~UNCHANGED vars, Broadcasts,
                       NEW n \in Names'
                PROVE  GoldOf(match', n) = Replayed(match'.updateEvent, n,
                           IF n \in Names THEN GoldOf(match, n) ELSE 0)
    OBVIOUS
  <2>1. /\ Sound(match) /\ MatchType(match) /\ Distinct(match.players)
        /\ match.players \in Seq(PlayerType)
    BY DEF Seated, Dealt, Sound, MatchType
  <2>2. MatchType(match') /\ Distinct(match'.players)
    <3>1. MatchType(match)' /\ Distinct(match.players)'
      BY DEF Seated, Dealt, Sound
    <3>. QED
      BY <3>1 DEF MatchType, Distinct
  <2>3. PICK k \in 1..Len(match'.players) : match'.players[k].name = n
    <3>1. Names' = {match'.players[i].name : i \in 1..Len(match'.players)}
      BY <2>2 DEF MatchType, Names, NamesOf, NameAt
    <3>. QED
      BY <3>1
  <2>4. \/ Tells(match, match')
        \/ \E j \in Name :
              /\ \A i \in 1..Len(match.players) : match.players[i].name # j
              /\ Tells(AddPlayer(match, j), match')
    <3>1. \/ Handled(match, match') \/ \E j \in Name : Entered(j)
      BY StepBroadcasts DEF Broadcasts
    <3>. QED
      BY <2>1, <3>1, HandledTells, StartTells DEF Entered
  <2>5. Names = {match.players[i].name : i \in 1..Len(match.players)}
    BY NamesAre DEF Seated
  <2>6. CASE Tells(match, match')
    <3>1. /\ k \in 1..Len(match.players) /\ match.players[k].name = n
          /\ GoldOf(match', n) = Replayed(match'.updateEvent, n, match.players[k].gold)
      BY <2>1, <2>2, <2>3, <2>6, LedgerOf
    <3>2. n \in Names /\ GoldOf(match, n) = match.players[k].gold
      BY <2>1, <2>5, <3>1, GoldAt
    <3>. QED
      BY <3>1, <3>2
  <2>7. ASSUME NEW j \in Name,
               \A i \in 1..Len(match.players) : match.players[i].name # j,
               Tells(AddPlayer(match, j), match')
        PROVE  GoldOf(match', n) = Replayed(match'.updateEvent, n,
                   IF n \in Names THEN GoldOf(match, n) ELSE 0)
    <3>. DEFINE m == AddPlayer(match, j)
                ps == match.players
    <3>1. MatchType(m) /\ Distinct(m.players)
      <4>1. m.players = Append(ps, NewPlayer(j))
        BY <2>1 DEF AddPlayer, MatchType
      <4>2. MatchType(m)
        <5>1. Append(ps, NewPlayer(j)) \in Seq(PlayerType)
          BY <2>1, NewPlayerType, AppendProperties
        <5>. QED
          BY <2>1, <5>1 DEF AddPlayer, MatchType
      <4>. QED
        BY <2>1, <2>7, <4>2, AddPlayerKeeps
    <3>2. /\ Len(m.players) = Len(ps) + 1 /\ Len(ps) \in Nat
          /\ \A i \in 1..Len(ps) : m.players[i] = ps[i]
          /\ m.players[Len(ps) + 1].name = j
          /\ m.players[Len(ps) + 1].gold = 0
      <4>1. m.players = Append(ps, NewPlayer(j))
        BY <2>1 DEF AddPlayer, MatchType
      <4>2. NewPlayer(j).name = j /\ NewPlayer(j).gold = 0
        BY DEF NewPlayer
      <4>. QED
        BY <2>1, <4>1, <4>2, NewPlayerType, AppendProperties
    <3>. HIDE DEF m
    <3>3. /\ k \in 1..Len(m.players) /\ m.players[k].name = n
          /\ GoldOf(match', n) = Replayed(match'.updateEvent, n, m.players[k].gold)
      BY <2>2, <2>3, <2>7, <3>1, LedgerOf DEF m
    <3>4. CASE k \in 1..Len(ps)
      <4>1. n \in Names /\ GoldOf(match, n) = m.players[k].gold
        BY <2>1, <2>5, <3>2, <3>3, <3>4, GoldAt
      <4>. QED
        BY <3>3, <4>1
    <3>5. CASE k \notin 1..Len(ps)
      <4>1. k = Len(ps) + 1
        BY <3>2, <3>3, <3>5
      <4>2. n = j /\ m.players[k].gold = 0
        BY <3>2, <3>3, <4>1
      <4>3. n \notin Names
        BY <2>5, <2>7, <4>2
      <4>. QED
        BY <3>3, <4>2, <4>3
    <3>. QED
      BY <3>4, <3>5
  <2>. QED
    BY <2>4, <2>6, <2>7
<1>. QED
  BY <1>1, SeatedInvariant, PTL DEF Spec, LedgerFollowsBroadcast

-----------------------------------------------------------------------------
(* The end of the game, between two players.                               *)

(* The nicknames a list of events announces as winners.                    *)
WinnersIn(es) == {es[k].nickname : k \in {j \in 1..Len(es) : es[j].type = "Winner"}}

LEMMA AnnouncedIs ==
    ASSUME NEW m, MatchType(m)
    PROVE  Announced(m) = WinnersIn(m.updateEvent)
<1>1. DOMAIN m.updateEvent = 1..Len(m.updateEvent)
  BY DEF MatchType
<1>. QED
  BY <1>1 DEF Announced, WinnersIn

LEMMA WinnersInMore ==
    ASSUME NEW s \in Seq(Update), NEW t \in Seq(Update)
    PROVE  WinnersIn(s \o t) = WinnersIn(s) \cup WinnersIn(t)
<1>. DEFINE es == s \o t
<1>1. Len(s) \in Nat /\ Len(t) \in Nat
  OBVIOUS
<1>2. /\ Len(es) = Len(s) + Len(t)
      /\ \A k \in 1..Len(es) : es[k] = IF k <= Len(s) THEN s[k] ELSE t[k - Len(s)]
  BY ConcatProperties
<1>. HIDE DEF es
<1>3. ASSUME NEW n \in WinnersIn(es) PROVE n \in WinnersIn(s) \cup WinnersIn(t)
  <2>1. PICK k \in 1..Len(es) : es[k].type = "Winner" /\ es[k].nickname = n
    BY <1>3 DEF WinnersIn
  <2>2. CASE k <= Len(s)
    <3>1. k \in 1..Len(s) /\ es[k] = s[k]
      BY <1>1, <1>2, <2>2
    <3>. QED
      BY <2>1, <3>1 DEF WinnersIn
  <2>3. CASE ~(k <= Len(s))
    <3>1. k - Len(s) \in 1..Len(t) /\ es[k] = t[k - Len(s)]
      BY <1>1, <1>2, <2>3
    <3>. QED
      BY <2>1, <3>1 DEF WinnersIn
  <2>. QED
    BY <2>2, <2>3
<1>4. ASSUME NEW n \in WinnersIn(s) PROVE n \in WinnersIn(es)
  <2>1. PICK k \in 1..Len(s) : s[k].type = "Winner" /\ s[k].nickname = n
    BY <1>4 DEF WinnersIn
  <2>2. k \in 1..Len(es) /\ es[k] = s[k]
    BY <1>1, <1>2
  <2>. QED
    BY <2>1, <2>2 DEF WinnersIn
<1>5. ASSUME NEW n \in WinnersIn(t) PROVE n \in WinnersIn(es)
  <2>1. PICK k \in 1..Len(t) : t[k].type = "Winner" /\ t[k].nickname = n
    BY <1>5 DEF WinnersIn
  <2>2. Len(s) + k \in 1..Len(es) /\ es[Len(s) + k] = t[k]
    <3>1. /\ Len(s) + k \in 1..Len(es) /\ ~(Len(s) + k <= Len(s))
          /\ (Len(s) + k) - Len(s) = k
      BY <1>1, <1>2
    <3>. QED
      BY <1>2, <3>1
  <2>. QED
    BY <2>1, <2>2 DEF WinnersIn
<1>. QED
  BY <1>3, <1>4, <1>5 DEF es

LEMMA AndTwo ==
    ASSUME NEW s \in Seq(Nat)
    PROVE  /\ Append(s, 2) \in Seq(Nat) /\ Len(Append(s, 2)) = Len(s) + 1
           /\ \A i \in 1..Len(s) : Append(s, 2)[i] = s[i]
           /\ Append(s, 2)[Len(s) + 1] = 2
OBVIOUS

(* The scan never raises the most victory it has seen from that of the     *)
(* first player; with two players that makes no difference.                *)
LEMMA WinnersOfTwo ==
    ASSUME NEW ps \in Seq(PlayerType), Len(ps) \in 1..2
    PROVE  ToSet(WinnersOf(ps)) =
             {i \in 1..Len(ps) : \A k \in 1..Len(ps) :
                GetTotalVictory(ps[k]) <= GetTotalVictory(ps[i])}
<1>. DEFINE V(i) == GetTotalVictory(ps[i])
<1>1. \A i \in 1..Len(ps) : V(i) \in Nat
  <2>1. \A i \in 1..Len(ps) : ps[i] \in PlayerType
    BY ElementOfSeq
  <2>. QED
    BY <2>1, TotalsAssumption DEF GetTotalVictory, Owned, PlayerType
<1>2. PICK f :
         /\ WinnersOf(ps) = f[Len(ps)] /\ f[0] = <<>>
         /\ \A i \in 1..Len(ps) : f[i] =
               IF V(i) > V(1) THEN << i >>
               ELSE IF V(i) = V(1) THEN Append(f[i - 1], i) ELSE f[i - 1]
  BY WinnersScan, Zenon
<1>. HIDE DEF V
<1>3. f[1] = << 1 >>
  <2>1. 1 \in 1..Len(ps)
    OBVIOUS
  <2>2. f[1] = IF V(1) > V(1) THEN << 1 >>
               ELSE IF V(1) = V(1) THEN Append(f[1 - 1], 1) ELSE f[1 - 1]
    BY <1>2, <2>1, Zenon
  <2>3. V(1) \in Nat /\ f[1 - 1] = <<>>
    BY <1>1, <1>2, <2>1
  <2>4. f[1] = Append(<<>>, 1)
    BY <2>2, <2>3
  <2>. QED
    BY <2>4
<1>4. CASE Len(ps) = 1
  <2>1. ToSet(WinnersOf(ps)) = {1}
    BY <1>2, <1>3, <1>4 DEF ToSet
  <2>2. {i \in 1..Len(ps) : \A k \in 1..Len(ps) : V(k) <= V(i)} = {1}
    BY <1>1, <1>4
  <2>. QED
    BY <2>1, <2>2 DEF V
<1>5. CASE Len(ps) = 2
  <2>1. V(1) \in Nat /\ V(2) \in Nat
    BY <1>1, <1>5
  <2>2. f[2] = IF V(2) > V(1) THEN << 2 >>
               ELSE IF V(2) = V(1) THEN Append(<< 1 >>, 2) ELSE << 1 >>
    BY <1>2, <1>3, <1>5
  <2>. DEFINE most == {i \in 1..2 : \A k \in 1..2 : V(k) <= V(i)}
  <2>3. CASE V(2) > V(1)
    <3>1. most = {2}
      BY <2>1, <2>3
    <3>2. ToSet(f[2]) = {2}
      BY <2>2, <2>3 DEF ToSet
    <3>. QED
      BY <1>2, <1>5, <3>1, <3>2 DEF V
  <2>4. CASE V(2) = V(1)
    <3>1. most = {1, 2}
      BY <2>1, <2>4
    <3>2. f[2] = Append(<< 1 >>, 2)
      BY <2>1, <2>2, <2>4
    <3>3. ToSet(f[2]) = {1, 2}
      <4>. DEFINE s == << 1 >>
      <4>1. s \in Seq(Nat) /\ Len(s) = 1 /\ s[1] = 1
        OBVIOUS
      <4>. HIDE DEF s
      <4>2. /\ DOMAIN Append(s, 2) = 1..2
            /\ Append(s, 2)[1] = 1 /\ Append(s, 2)[2] = 2
        <5>1. /\ Append(s, 2) \in Seq(Nat) /\ Len(Append(s, 2)) = Len(s) + 1
              /\ \A i \in 1..Len(s) : Append(s, 2)[i] = s[i]
              /\ Append(s, 2)[Len(s) + 1] = 2
          BY <4>1, AndTwo
        <5>2. 1 \in 1..Len(s) /\ Len(s) + 1 = 2
          BY <4>1
        <5>. QED
          BY <4>1, <5>1, <5>2
      <4>3. ToSet(Append(s, 2)) = {1, 2}
        BY <4>2 DEF ToSet
      <4>. QED
        BY <3>2, <4>3 DEF s
    <3>. QED
      BY <1>2, <1>5, <3>1, <3>3 DEF V
  <2>5. CASE V(2) < V(1)
    <3>1. most = {1}
      BY <2>1, <2>5
    <3>2. f[2] = << 1 >>
      BY <2>1, <2>2, <2>5
    <3>3. ToSet(f[2]) = {1}
      BY <3>2 DEF ToSet
    <3>. QED
      BY <1>2, <1>5, <3>1, <3>3 DEF V
  <2>. QED
    BY <2>1, <2>3, <2>4, <2>5
<1>. QED
  BY <1>4, <1>5

(* What is announced by the end of a handler, and along it.                *)
AnnouncedWell(m) ==
    \/ WinnersIn(m.updateEvent) = {}
    \/ m.currentPhase = "Finished" /\ WinnersIn(m.updateEvent) = MostVictory(m)

LEMMA GameEndAnnounces ==
    ASSUME NEW m, Playing(m), m.currentPhase = "GameEnd", Len(m.players) \in 1..2,
           WinnersIn(m.updateEvent) = {}
    PROVE  AnnouncedWell(OnGameEndPhase(m))
<1>. DEFINE r == OnGameEndPhase(m)
            ps == m.players
            winners == WinnersOf(ps)
<1>1. MatchType(m) /\ ps \in Seq(PlayerType) /\ m.updateEvent \in Seq(Update)
  BY DEF Playing, Sound, MatchType
<1>2. /\ r.players = ps /\ r.updateEvent = m.updateEvent \o Won(m)
      /\ r.currentPhase = "Finished"
  BY <1>1, GameEndResult
<1>3. /\ Won(m) \in Seq(Update) /\ Len(Won(m)) = Len(winners)
      /\ \A k \in 1..Len(Won(m)) : /\ Won(m)[k].type = "Winner"
                                    /\ Won(m)[k].nickname = NameAt(m, winners[k])
  BY <1>1, WonType, EventSays
<1>4. ToSet(winners) = {i \in 1..Len(ps) : \A k \in 1..Len(ps) :
                          GetTotalVictory(ps[k]) <= GetTotalVictory(ps[i])}
  BY <1>1, WinnersOfTwo
<1>5. ToSet(winners) = {winners[k] : k \in 1..Len(winners)}
  <2>1. winners \in Seq(1..Len(ps))
    BY <1>1, WinnersType
  <2>. HIDE DEF winners
  <2>. QED
    BY <2>1 DEF ToSet
<1>. HIDE DEF r, winners
<1>6. WinnersIn(r.updateEvent) = WinnersIn(Won(m))
  BY <1>1, <1>2, <1>3, WinnersInMore
<1>7. WinnersIn(Won(m)) = {NameAt(m, i) : i \in ToSet(winners)}
  BY <1>3, <1>5 DEF WinnersIn
<1>8. MostVictory(r) = {NameAt(m, i) : i \in ToSet(winners)}
  <2>1. DOMAIN r.players = 1..Len(ps)
    BY <1>1, <1>2
  <2>. QED
    BY <1>2, <1>4, <2>1 DEF MostVictory, NameAt
<1>9. AnnouncedWell(r)
  BY <1>2, <1>6, <1>7, <1>8 DEF AnnouncedWell
<1>. QED
  BY <1>9 DEF r

LEMMA OnPhaseAnnounces ==
    ASSUME NEW m, Playing(m), Len(m.players) \in 1..2, AnnouncedWell(m)
    PROVE  /\ AnnouncedWell(OnPhase(m))
           /\ Len(OnPhase(m).players) = Len(m.players)
<1>1. MatchType(m) /\ MatchType(OnPhase(m)) /\ m.updateEvent \in Seq(Update)
  BY OnPhaseSound DEF Playing, Sound, MatchType
<1>2. Len(OnPhase(m).players) = Len(m.players)
  BY <1>1, OnPhaseKeeps, NamesStay DEF Keeps, MatchType
<1>3. CASE m.currentPhase = "Finished"
  <2>1. OnPhase(m) = m
    BY <1>3, RestingStays DEF Resting
  <2>. QED
    BY <1>2, <2>1
<1>4. CASE m.currentPhase = "GameEnd"
  <2>1. WinnersIn(m.updateEvent) = {}
    BY <1>4 DEF AnnouncedWell
  <2>2. ~Resting(m)
    BY <1>4 DEF Resting, Playing, Sound
  <2>. QED
    BY <1>2, <1>4, <2>1, <2>2, GameEndAnnounces, PhaseMethod
<1>5. CASE m.currentPhase \notin {"Finished", "GameEnd"}
  <2>1. PICK es \in Seq(Update) :
           /\ OnPhase(m).updateEvent = m.updateEvent \o es
           /\ \A k \in 1..Len(es) : es[k].type # "Winner"
    BY <1>5, OnPhaseAddsPlain DEF AddsPlain
  <2>2. WinnersIn(m.updateEvent) = {} /\ WinnersIn(es) = {}
    BY <1>5, <2>1 DEF AnnouncedWell, WinnersIn
  <2>3. WinnersIn(OnPhase(m).updateEvent) = {}
    BY <1>1, <2>1, <2>2, WinnersInMore
  <2>. QED
    BY <1>2, <2>3 DEF AnnouncedWell
<1>. QED
  BY <1>3, <1>4, <1>5

LEMMA ProcessPhaseAnnounces ==
    ASSUME NEW m, Playing(m), Len(m.players) \in 1..2, AnnouncedWell(m)
    PROVE  AnnouncedWell(ProcessPhase(m))
<1>1. PICK m1, m2, m3, m4 :
         /\ m1 = OnPhase(m) /\ Playing(m1)
         /\ m2 = OnPhase(m1) /\ Playing(m2)
         /\ m3 = OnPhase(m2) /\ Playing(m3)
         /\ m4 = OnPhase(m3) /\ Playing(m4)
         /\ ProcessPhase(m) = OnPhase(m4)
  BY FivePhases
<1>2. AnnouncedWell(m1) /\ Len(m1.players) \in 1..2
  BY <1>1, OnPhaseAnnounces
<1>3. AnnouncedWell(m2) /\ Len(m2.players) \in 1..2
  BY <1>1, <1>2, OnPhaseAnnounces
<1>4. AnnouncedWell(m3) /\ Len(m3.players) \in 1..2
  BY <1>1, <1>3, OnPhaseAnnounces
<1>5. AnnouncedWell(m4) /\ Len(m4.players) \in 1..2
  BY <1>1, <1>4, OnPhaseAnnounces
<1>. QED
  BY <1>1, <1>5, OnPhaseAnnounces

LEMMA HandledAnnounces ==
    ASSUME NEW m, Sound(m), Len(m.players) <= 2, NEW r, Handled(m, r)
    PROVE  AnnouncedWell(r)
<1>1. CASE r = SetError(m)
  <2>1. r.updateEvent = Error
    BY <1>1 DEF Sound, MatchType, SetError
  <2>2. \A k \in 1..Len(Error) : Error[k].type = "Error"
    BY EventSays DEF Error
  <2>. QED
    BY <2>1, <2>2 DEF AnnouncedWell, WinnersIn
<1>2. CASE r # SetError(m)
  <2>1. PICK b : Bids(m, b) /\ r = ProcessPhase(b)
    BY <1>2 DEF Handled
  <2>2. PICK i \in 1..Len(m.players) : Says(m, b, i)
    BY <2>1 DEF Bids
  <2>3. PICK type \in {"Attack", "Offer", "Pass"}, gold \in Nat :
           b.updateEvent = << Event(type, NameAt(m, i), gold) >>
    BY <2>2 DEF Says
  <2>. DEFINE event == Event(type, NameAt(m, i), gold)
  <2>4. event.type = type
    BY EventSays
  <2>. HIDE DEF event
  <2>5. \A k \in 1..Len(b.updateEvent) : b.updateEvent[k].type # "Winner"
    <3>1. b.updateEvent = << event >>
      BY <2>3 DEF event
    <3>. QED
      BY <2>4, <3>1
  <2>6. AnnouncedWell(b)
    BY <2>5 DEF AnnouncedWell, WinnersIn
  <2>7. Playing(b) /\ Len(b.players) \in 1..2
    <3>1. /\ Playing(b) /\ b.players # <<>> /\ b.players \in Seq(PlayerType)
          /\ Len(b.players) = Len(m.players)
      BY <2>1 DEF Bids, SameHands, Playing, Sound, MatchType
    <3>2. Len(b.players) \in Nat /\ Len(b.players) # 0 /\ Len(b.players) <= 2
      <4>. DEFINE qs == b.players
      <4>1. qs \in Seq(PlayerType) /\ qs # <<>>
        BY <3>1
      <4>. HIDE DEF qs
      <4>2. Len(qs) \in Nat /\ Len(qs) # 0
        BY <4>1
      <4>. QED
        BY <3>1, <4>2 DEF qs
    <3>3. Len(b.players) \in 1..2
      <4>. DEFINE l == Len(b.players)
      <4>. HIDE DEF l
      <4>1. l \in Nat /\ l # 0 /\ l <= 2
        BY <3>2 DEF l
      <4>2. l \in 1..2
        BY <4>1
      <4>. QED
        BY <4>2 DEF l
    <3>. QED
      BY <3>1, <3>3
  <2>. QED
    BY <2>1, <2>6, <2>7, ProcessPhaseAnnounces
<1>. QED
  BY <1>1, <1>2

LEMMA StartAnnounces ==
    ASSUME NEW m, Sound(m), Len(m.players) <= 2, m.players # <<>>, Undisputed(m),
           NEW r \in Starts(m)
    PROVE  AnnouncedWell(r)
<1>. DEFINE n == [m EXCEPT !.updateEvent = MovedFrom(m.updateEvent)]
<1>1. MatchType(m) /\ m.players \in Seq(PlayerType)
  BY DEF Sound, MatchType
<1>2. MatchType(n) /\ n.fault = m.fault /\ n.players = m.players
      /\ n.currentPhase = m.currentPhase /\ n.currentOffer = m.currentOffer
      /\ n.cardsInAuction = m.cardsInAuction
      /\ n.currentAttack = m.currentAttack
      /\ n.updateEvent = MovedFrom(m.updateEvent)
      /\ n.updateEvent \in Seq(Update)
  <2>1. MovedFrom(m.updateEvent) \in Seq(Update)
    BY <1>1 DEF MatchType, MovedFrom
  <2>. QED
    BY <1>1, <2>1 DEF MatchType
<1>3. PICK a \in DOMAIN m.players, d \in Shuffles(m.deck) :
        r = ProcessPhase(OnGameStartPhase(n, a, d))
  BY DEF Starts
<1>4. d \in Seq(Card) /\ DOMAIN m.players = 1..Len(m.players)
  BY <1>1, DeckAssumption DEF Shuffles, MatchType
<1>. HIDE DEF n
<1>5. Sound(n) /\ Undisputed(n)
  BY <1>2 DEF Sound, Covered, Undisputed
<1>6. WinnersIn(n.updateEvent) = {}
  <2>1. \A k \in 1..Len(Error) : Error[k].type = "Error"
    BY EventSays DEF Error
  <2>. QED
    BY <1>2, <2>1 DEF MovedFrom, WinnersIn
<1>. DEFINE g == OnGameStartPhase(n, a, d)
            first == Event("IsAuctioneer", NameAt(n, a), 0)
            given == Granted(n.players, a)
<1>7. /\ Playing(g) /\ SameHands(n.players, g.players)
      /\ g.updateEvent = n.updateEvent \o Opening(n, a)
  <2>1. Playing(g)
    BY <1>2, <1>4, <1>5, GameStartSound
  <2>2. SameHands(n.players, g.players)
    BY <1>2, GameStartResult
  <2>3. g.updateEvent = n.updateEvent \o Opening(n, a)
    <3>1. MatchType(n)
      BY <1>2
    <3>. QED
      BY <3>1, GameStartSays
  <2>. QED
    BY <2>1, <2>2, <2>3
<1>8. /\ Opening(n, a) = << first >> \o given /\ << first >> \in Seq(Update)
      /\ Opening(n, a) \in Seq(Update) /\ given \in Seq(Update)
      /\ first.type = "IsAuctioneer"
      /\ \A k \in 1..Len(given) : given[k].type = "SetGold"
  <2>1. n.players \in Seq(PlayerType)
    BY <1>1, <1>2
  <2>2. /\ << first >> \in Seq(Update) /\ Opening(n, a) \in Seq(Update)
        /\ Opening(n, a) = << first >> \o given
    BY <1>2, <1>4, OpeningType DEF Opening
  <2>3. given \in Seq(Update) /\ \A k \in 1..Len(given) : given[k].type = "SetGold"
    BY <2>1, GrantedType, EventSays
  <2>4. first.type = "IsAuctioneer"
    BY EventSays
  <2>. QED
    BY <2>2, <2>3, <2>4
<1>. HIDE DEF g, first, given
<1>9. WinnersIn(<< first >>) = {} /\ WinnersIn(given) = {}
  BY <1>8 DEF WinnersIn
<1>10. WinnersIn(g.updateEvent) = {}
  <2>1. WinnersIn(Opening(n, a)) = {}
    <3>. DEFINE s == << first >>
    <3>1. s \in Seq(Update) /\ given \in Seq(Update) /\ Opening(n, a) = s \o given
          /\ WinnersIn(s) = {} /\ WinnersIn(given) = {}
      BY <1>8, <1>9
    <3>. HIDE DEF s
    <3>2. WinnersIn(s \o given) = WinnersIn(s) \cup WinnersIn(given)
      BY <3>1, WinnersInMore
    <3>. QED
      BY <3>1, <3>2
  <2>2. WinnersIn(g.updateEvent)
          = WinnersIn(n.updateEvent) \cup WinnersIn(Opening(n, a))
    BY <1>2, <1>7, <1>8, WinnersInMore
  <2>. QED
    BY <1>6, <2>1, <2>2
<1>11. Len(g.players) \in 1..2
  <2>. DEFINE l == Len(m.players)
  <2>1. Len(g.players) = l /\ l \in Nat /\ l # 0 /\ l <= 2
    BY <1>1, <1>2, <1>7 DEF SameHands
  <2>. HIDE DEF l
  <2>2. l \in 1..2
    BY <2>1
  <2>. QED
    BY <2>1, <2>2
<1>. QED
  BY <1>3, <1>7, <1>10, <1>11, ProcessPhaseAnnounces DEF AnnouncedWell, g

(* A match of at most two players, as MatchConfig makes it unless told     *)
(* otherwise, announces exactly the players with the most victory points.  *)
(* Of three it does not: the scan compares all with the first player only. *)
THEOREM TwoPlayersWinners ==
    ASSUME NumPlayers <= 2
    PROVE  Spec => WinnersHaveMostVictory
<1>. DEFINE Right == Broadcasts /\ Announced(match') # {} =>
                        Announced(match') = MostVictory(match')
<1>1. Seated /\ Seated' /\ [Next]_vars => [Right]_vars
  <2>. SUFFICES ASSUME Seated, Seated', [Next]_vars, ~UNCHANGED vars, Broadcasts,
                       Announced(match') # {}
                PROVE  Announced(match') = MostVictory(match')
    OBVIOUS
  <2>1. /\ Sound(match) /\ Len(match.players) <= 2
        /\ Len(match.players) \in Nat
    BY ConfigAssumption DEF Seated, Dealt, Sound, MatchType
  <2>2. MatchType(match')
    <3>1. MatchType(match)'
      BY DEF Seated, Dealt, Sound
    <3>. QED
      BY <3>1 DEF MatchType
  <2>3. AnnouncedWell(match')
    <3>1. CASE Handled(match, match')
      BY <2>1, <3>1, HandledAnnounces
    <3>2. ASSUME NEW n \in Name, Entered(n) PROVE AnnouncedWell(match')
      <4>. DEFINE m == AddPlayer(match, n)
      <4>1. /\ Sound(m) /\ Undisputed(m) /\ m.players # <<>>
            /\ match' \in Starts(m)
        BY <3>2 DEF Entered
      <4>2. Keeps(m, match')
        BY <4>1, StartKeeps
      <4>. HIDE DEF m
      <4>3. Len(match'.players) = Len(m.players)
        BY <2>2, <4>1, <4>2, NamesStay DEF Keeps, Sound, MatchType
      <4>4. Len(m.players) <= 2
        <5>1. Len(match'.players) <= NumPlayers
          BY StepBroadcasts
        <5>2. Len(m.players) \in Nat /\ NumPlayers \in Nat
          BY <4>1, ConfigAssumption DEF Sound, MatchType
        <5>. QED
          BY <4>3, <5>1, <5>2
      <4>. QED
        BY <4>1, <4>4, StartAnnounces
    <3>. QED
      BY <3>1, <3>2, StepBroadcasts DEF Broadcasts
  <2>. QED
    BY <2>2, <2>3, AnnouncedIs DEF AnnouncedWell
<1>. QED
  BY <1>1, SeatedInvariant, PTL DEF Spec, WinnersHaveMostVictory
=============================================================================
