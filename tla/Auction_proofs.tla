--------------------------- MODULE Auction_proofs ---------------------------
(***************************************************************************)
(* A match is an auction: MatchHandler implements Auction, for any number  *)
(* of players who come and go, any deck and any amounts of gold.           *)
(***************************************************************************)
EXTENDS MatchHandler_proofs

-----------------------------------------------------------------------------
(* What players own, by position and by nickname.                          *)

SameNames(ps, qs) ==
    Len(qs) = Len(ps) /\ \A i \in 1..Len(ps) : qs[i].name = ps[i].name

(* Nothing changes hands.                                                  *)
Unmoved(ps, qs) ==
    /\ SameNames(ps, qs)
    /\ \A i \in 1..Len(ps) : qs[i].gold = ps[i].gold /\ Hand(qs, i) = Hand(ps, i)

(* Player w gets the card and pays; w is 0 when nobody does.               *)
Sold(ps, qs, w, card, price) ==
    /\ SameNames(ps, qs)
    /\ \A i \in 1..Len(ps) :
        /\ qs[i].gold = IF i = w THEN ps[i].gold - price ELSE ps[i].gold
        /\ Hand(qs, i) = IF i = w THEN Hand(ps, i) \cup {card} ELSE Hand(ps, i)

(* Everybody earns what their cards produce.                               *)
Produces(ps, qs) ==
    /\ SameNames(ps, qs)
    /\ \A i \in 1..Len(ps) :
        /\ qs[i].gold = ps[i].gold + TotalProduction(Hand(ps, i))
        /\ Hand(qs, i) = Hand(ps, i)

LEMMA UnmovedMore ==
    ASSUME NEW ps, NEW qs, NEW rs, Unmoved(qs, rs)
    PROVE  /\ Unmoved(ps, qs) => Unmoved(ps, rs)
           /\ Produces(ps, qs) => Produces(ps, rs)
BY DEF Unmoved, Produces, SameNames

(* A match whose players have types and nicknames of their own.            *)
NamedApart(m) == MatchType(m) /\ Distinct(m.players)

LEMMA NameOfIndex ==
    ASSUME NEW m, NamedApart(m)
    PROVE  /\ NamesOf(m) = {NameAt(m, i) : i \in 1..Len(m.players)}
           /\ \A i \in 1..Len(m.players) : /\ NameAt(m, i) \in NamesOf(m)
                                           /\ NameAt(m, i) \in Name
                                           /\ GetPlayerIndex(m, NameAt(m, i)) = i
           /\ \A i, j \in 1..Len(m.players) :
                NameAt(m, i) = NameAt(m, j) => i = j
<1>1. MatchType(m) /\ Distinct(m.players)
  BY DEF NamedApart
<1>2. DOMAIN m.players = 1..Len(m.players)
  BY <1>1 DEF MatchType
<1>3. NamesOf(m) = {NameAt(m, i) : i \in 1..Len(m.players)}
  BY <1>2 DEF NamesOf
<1>4. \A i, j \in 1..Len(m.players) : NameAt(m, i) = NameAt(m, j) => i = j
  BY <1>1 DEF Distinct, NameAt
<1>5. ASSUME NEW i \in 1..Len(m.players)
      PROVE  GetPlayerIndex(m, NameAt(m, i)) = i /\ NameAt(m, i) \in Name
  <2>1. IsPlayer(m, NameAt(m, i))
    BY <1>2 DEF IsPlayer
  <2>. QED
    BY <1>1, <1>4, <2>1, PlayerIndex
<1>. QED
  BY <1>3, <1>4, <1>5

(* The functions by nickname, from what the players own by position.       *)
LEMMA OwnersAre ==
    ASSUME NEW m, NamedApart(m)
    PROVE  /\ DOMAIN GoldIn(m) = NamesOf(m) /\ DOMAIN HandsIn(m) = NamesOf(m)
           /\ \A i \in 1..Len(m.players) :
                /\ GoldIn(m)[NameAt(m, i)] = m.players[i].gold
                /\ HandsIn(m)[NameAt(m, i)] = Hand(m.players, i)
BY NameOfIndex DEF GoldIn, HandsIn, GoldOf, Hand

LEMMA GoldIs ==
    ASSUME NEW m, NamedApart(m), NEW f, f = [n \in NamesOf(m) |-> f[n]],
           \A i \in 1..Len(m.players) : f[NameAt(m, i)] = m.players[i].gold
    PROVE  GoldIn(m) = f
<1>1. ASSUME NEW n \in NamesOf(m) PROVE GoldIn(m)[n] = f[n]
  <2>1. PICK i \in 1..Len(m.players) : n = NameAt(m, i)
    BY NameOfIndex
  <2>. QED
    BY <2>1, OwnersAre
<1>2. GoldIn(m) = [n \in NamesOf(m) |-> GoldIn(m)[n]]
  BY DEF GoldIn
<1>3. [n \in NamesOf(m) |-> GoldIn(m)[n]] = [n \in NamesOf(m) |-> f[n]]
  BY <1>1
<1>. QED
  BY <1>2, <1>3, Zenon

LEMMA HandsAre ==
    ASSUME NEW m, NamedApart(m), NEW f, f = [n \in NamesOf(m) |-> f[n]],
           \A i \in 1..Len(m.players) : f[NameAt(m, i)] = Hand(m.players, i)
    PROVE  HandsIn(m) = f
<1>1. ASSUME NEW n \in NamesOf(m) PROVE HandsIn(m)[n] = f[n]
  <2>1. PICK i \in 1..Len(m.players) : n = NameAt(m, i)
    BY NameOfIndex
  <2>. QED
    BY <2>1, OwnersAre
<1>2. HandsIn(m) = [n \in NamesOf(m) |-> HandsIn(m)[n]]
  BY DEF HandsIn
<1>3. [n \in NamesOf(m) |-> HandsIn(m)[n]] = [n \in NamesOf(m) |-> f[n]]
  BY <1>1
<1>. QED
  BY <1>2, <1>3, Zenon

LEMMA SameNamesSeated ==
    ASSUME NEW m, NamedApart(m), NEW r, MatchType(r), SameNames(m.players, r.players)
    PROVE  /\ NamedApart(r) /\ NamesOf(r) = NamesOf(m)
           /\ \A i \in 1..Len(m.players) : NameAt(r, i) = NameAt(m, i)
<1>1. /\ Len(r.players) = Len(m.players)
      /\ \A i \in 1..Len(m.players) : NameAt(r, i) = NameAt(m, i)
  BY DEF SameNames, NameAt
<1>2. NamedApart(r)
  BY DEF NamedApart, Distinct, SameNames
<1>3. NamesOf(m) = {NameAt(m, i) : i \in 1..Len(m.players)}
  BY NameOfIndex
<1>4. NamesOf(r) = {NameAt(r, i) : i \in 1..Len(m.players)}
  BY <1>1, <1>2, NameOfIndex
<1>5. NamesOf(r) = NamesOf(m)
  BY <1>1, <1>3, <1>4, Zenon
<1>. QED
  BY <1>1, <1>2, <1>5

LEMMA UnmovedOwners ==
    ASSUME NEW m, NamedApart(m), NEW r, MatchType(r), Unmoved(m.players, r.players)
    PROVE  GoldIn(r) = GoldIn(m) /\ HandsIn(r) = HandsIn(m)
<1>1. /\ NamedApart(r) /\ NamesOf(r) = NamesOf(m)
      /\ \A i \in 1..Len(m.players) : NameAt(r, i) = NameAt(m, i)
  BY SameNamesSeated DEF Unmoved
<1>2. Len(r.players) = Len(m.players)
  BY DEF Unmoved, SameNames
<1>. DEFINE gold == GoldIn(m)
            hands == HandsIn(m)
<1>3. gold = [n \in NamesOf(r) |-> gold[n]]
      /\ hands = [n \in NamesOf(r) |-> hands[n]]
  BY <1>1 DEF GoldIn, HandsIn
<1>4. \A i \in 1..Len(r.players) :
        /\ gold[NameAt(r, i)] = r.players[i].gold
        /\ hands[NameAt(r, i)] = Hand(r.players, i)
  BY <1>1, <1>2, OwnersAre DEF Unmoved
<1>. HIDE DEF gold, hands
<1>5. GoldIn(r) = gold
  BY <1>1, <1>3, <1>4, GoldIs
<1>6. HandsIn(r) = hands
  BY <1>1, <1>3, <1>4, HandsAre
<1>. QED
  BY <1>5, <1>6 DEF gold, hands

-----------------------------------------------------------------------------
(* What the phase methods do with gold and cards.                          *)

(* A dispute has just begun, or the match is over.                         *)
Opened(r) ==
    /\ Playing(r) /\ Undisputed(r) /\ Resting(r)
    /\ r.currentPhase \in {"Attack", "Auction", "Finished"}
    /\ r.currentPhase = "Finished" => r.cardsInAuction = <<>>

LEMMA UnmovedItself == ASSUME NEW ps PROVE Unmoved(ps, ps)
BY DEF Unmoved, SameNames

LEMMA SameHandsUnmoved ==
    ASSUME NEW ps, NEW qs, SameHands(ps, qs), SameGold(ps, qs)
    PROVE  Unmoved(ps, qs)
BY DEF Unmoved, SameNames, SameHands, SameGold, SameCards, Hand, Owned

LEMMA ResetUnmoved ==
    ASSUME NEW ps \in Seq(PlayerType)
    PROVE  Unmoved(ps, ResetAll(ps)) /\ ResetAll(ps) \in Seq(PlayerType)
<1>1. /\ ResetAll(ps) \in Seq(PlayerType)
      /\ \A i \in 1..Len(ps) : ResetAll(ps)[i] = ResetAuctionState(ps[i])
  BY ResetAllType DEF ResetAll
<1>2. \A i \in 1..Len(ps) : ps[i] \in PlayerType
  BY ElementOfSeq
<1>3. SameGold(ps, ResetAll(ps))
  BY <1>1, <1>2 DEF SameGold, ResetAuctionState, PlayerType
<1>. QED
  BY <1>1, <1>3, ResetHands, SameHandsUnmoved

(* A fresh dispute by force, or by gold if nobody has force to show.       *)
LEMMA AttackOpens ==
    ASSUME NEW m, Playing(m), Undisputed(m), m.currentPhase = "Attack"
    PROVE  LET r == OnPhase(m)
           IN  /\ Opened(r) /\ Unmoved(m.players, r.players)
               /\ r.cardsInAuction = m.cardsInAuction
<1>1. CASE Resting(m)
  <2>1. OnPhase(m) = m
    BY <1>1, RestingStays
  <2>. QED
    BY <1>1, <2>1, UnmovedItself DEF Opened
<1>2. CASE ~Resting(m)
  <2>. DEFINE r == OnAttackPhase(m)
  <2>1. OnPhase(m) = r
    BY <1>2, PhaseMethod
  <2>2. ~IsThereWinner(m)
    BY DEF IsThereWinner, Undisputed
  <2>3. /\ r.cardsInAuction = m.cardsInAuction
        /\ r.players = ResetAll(m.players) /\ r.currentPhase = "Auction"
    BY <2>2, AttackResult
  <2>4. Playing(r) /\ Undisputed(r)
    BY AttackSound
  <2>. HIDE DEF r
  <2>5. Resting(r)
    BY <2>3, <2>4, FreshAuctionRests
  <2>6. m.players \in Seq(PlayerType)
    BY DEF Playing, Sound, MatchType
  <2>7. Opened(r) /\ Unmoved(m.players, r.players)
    BY <2>3, <2>4, <2>5, <2>6, ResetUnmoved DEF Opened
  <2>. QED
    BY <2>1, <2>3, <2>7
<1>. QED
  BY <1>1, <1>2

(* A turn begins with a dispute, or the match ends.                        *)
LEMMA TurnOpens ==
    ASSUME NEW m, Playing(m), m.currentPhase = "TurnStart",
           m.cardsInAuction = <<>>
    PROVE  LET r == OnPhase(OnPhase(m))
           IN  Opened(r) /\ Unmoved(m.players, r.players)
<1>. DEFINE r1 == OnTurnStartPhase(m)
<1>1. OnPhase(m) = r1
  BY PhaseMethod DEF Playing, Sound, Resting
<1>2. /\ Playing(r1) /\ Undisputed(r1) /\ r1.players = m.players
      /\ r1.currentPhase \in {"Attack", "GameEnd"}
      /\ r1.currentPhase = "GameEnd" => r1.cardsInAuction = <<>>
  BY TurnStartSound, TurnStartResult
<1>. HIDE DEF r1
<1>3. CASE r1.currentPhase = "Attack"
  BY <1>1, <1>2, <1>3, AttackOpens
<1>4. CASE r1.currentPhase = "GameEnd"
  <2>. DEFINE r2 == OnGameEndPhase(r1)
  <2>1. OnPhase(r1) = r2
    BY <1>2, <1>4, PhaseMethod DEF Playing, Sound, Resting
  <2>2. /\ Playing(r2) /\ r2.currentPhase = "Finished"
        /\ r2.players = m.players /\ r2.cardsInAuction = <<>>
    BY <1>2, <1>4, GameEndSound, GameEndResult
  <2>. HIDE DEF r2
  <2>3. Opened(r2)
    BY <2>2 DEF Opened, Playing, Sound, Resting
  <2>. QED
    BY <1>1, <2>1, <2>2, <2>3, UnmovedItself
<1>. QED
  BY <1>2, <1>3, <1>4

(* A turn ends with what the cards produce, and the next one begins.       *)
LEMMA TurnEnds ==
    ASSUME NEW m, Playing(m), m.currentPhase = "TurnEnd",
           m.cardsInAuction = <<>>
    PROVE  LET r == OnPhase(OnPhase(OnPhase(m)))
           IN  Opened(r) /\ Produces(m.players, r.players)
<1>. DEFINE r1 == OnTurnEndPhase(m)
            r3 == OnPhase(OnPhase(r1))
<1>1. OnPhase(m) = r1
  BY PhaseMethod DEF Playing, Sound, Resting
<1>2. /\ Playing(r1) /\ r1.currentPhase = "TurnStart"
      /\ r1.cardsInAuction = <<>>
  BY TurnEndSound, TurnEndResult
<1>3. Produces(m.players, r1.players)
  BY TurnEndResult DEF Produces, SameNames
<1>. HIDE DEF r1
<1>4. Opened(r3) /\ Unmoved(r1.players, r3.players)
  BY <1>2, TurnOpens
<1>. HIDE DEF r3
<1>5. Produces(m.players, r3.players)
  BY <1>3, <1>4, UnmovedMore
<1>. QED
  BY <1>1, <1>4, <1>5 DEF r3

-----------------------------------------------------------------------------
(* The end of a dispute.                                                   *)

(* One player at most leads, and then a force or an offer stands; no card  *)
(* waits on the table of a match in which none is disputed.                *)
Orderly(m) ==
    /\ m.currentPhase \notin {"Attack", "Auction"} => m.cardsInAuction = <<>>
    /\ \A i, j \in WinnerIndices(m) : i = j
    /\ WinnerIndices(m) # {} => BidOn(m) # 0

(* Who leads, and 0 if nobody does.                                        *)
Leader(m) == IF WinnerIndices(m) = {} THEN 0 ELSE GetCurrentWinner(m)

PriceOf(m) == IF m.currentPhase = "Auction" THEN m.currentOffer ELSE 0

LEMMA LeaderIs ==
    ASSUME NEW m, MatchType(m), WinnerIndices(m) # {}
    PROVE  /\ Leader(m) = GetCurrentWinner(m)
           /\ Leader(m) \in 1..Len(m.players) /\ Leader(m) \in WinnerIndices(m)
<1>1. DOMAIN m.players = 1..Len(m.players)
  BY DEF MatchType
<1>. QED
  BY <1>1, WinnerIndex DEF Leader, WinnerIndices

LEMMA BuyerGets ==
    ASSUME NEW ps \in Seq(PlayerType), NEW w \in 1..Len(ps),
           NEW p \in PlayerType, NEW card, NEW price, p.name = ps[w].name,
           Owned(p) = Owned(ps[w]) \cup {card}, p.gold = ps[w].gold - price
    PROVE  Sold(ps, ResetAll([ps EXCEPT ![w] = p]), w, card, price)
<1>. DEFINE us == [ps EXCEPT ![w] = p]
            qs == ResetAll(us)
<1>1. /\ us \in Seq(PlayerType) /\ Len(us) = Len(ps)
      /\ \A i \in 1..Len(ps) : us[i] = IF i = w THEN p ELSE ps[i]
  BY ExceptSeq
<1>. HIDE DEF us
<1>2. Unmoved(us, qs)
  BY <1>1, ResetUnmoved
<1>. HIDE DEF qs
<1>3. Sold(ps, qs, w, card, price)
  BY <1>1, <1>2 DEF Sold, Unmoved, SameNames, Hand
<1>. QED
  BY <1>3 DEF qs, us

LEMMA UnmovedIsSold ==
    ASSUME NEW ps, NEW qs, NEW card, NEW price, Unmoved(ps, qs)
    PROVE  Sold(ps, qs, 0, card, price)
BY DEF Unmoved, Sold

LEMMA AttackEnds ==
    ASSUME NEW m, Playing(m), Orderly(m), m.currentPhase = "Attack"
    PROVE  LET r == OnAttackPhase(m)
               table == m.cardsInAuction
           IN  /\ WinnerIndices(m) = {} =>
                    /\ Unmoved(m.players, r.players)
                    /\ r.cardsInAuction = table /\ r.currentPhase = "Auction"
               /\ WinnerIndices(m) # {} =>
                    /\ Sold(m.players, r.players, Leader(m), Head(table), 0)
                    /\ r.cardsInAuction = Tail(table)
                    /\ r.currentPhase =
                         IF Tail(table) = <<>> THEN "TurnEnd" ELSE "Attack"
<1>. DEFINE r == OnAttackPhase(m)
            table == m.cardsInAuction
            w == GetCurrentWinner(m)
            card == Head(table)
<1>1. /\ MatchType(m) /\ m.players \in Seq(PlayerType)
      /\ table \in Seq(Card) /\ table # <<>>
  BY DEF Playing, Sound, MatchType
<1>2. CASE WinnerIndices(m) = {}
  <2>1. /\ r.cardsInAuction = table /\ r.players = ResetAll(m.players)
        /\ r.currentPhase = "Auction"
    BY <1>2, AttackResult
  <2>. QED
    BY <1>1, <1>2, <2>1, ResetUnmoved
<1>3. CASE WinnerIndices(m) # {}
  <2>1. IsThereWinner(m)
    BY <1>3 DEF Orderly, BidOn, IsThereWinner
  <2>. DEFINE p == AddCard(m.players[w], card)
  <2>2. /\ r.cardsInAuction = Tail(table)
        /\ r.players = ResetAll([m.players EXCEPT ![w] = p])
        /\ r.currentPhase = IF Tail(table) = <<>> THEN "TurnEnd" ELSE "Attack"
    BY <1>3, <2>1, AttackResult
  <2>3. w = Leader(m) /\ w \in 1..Len(m.players) /\ m.players[w] \in PlayerType
    BY <1>1, <1>3, LeaderIs, ElementOfSeq
  <2>4. card \in Card
    BY <1>1
  <2>5. /\ p \in PlayerType /\ p.name = m.players[w].name
        /\ Owned(p) = Owned(m.players[w]) \cup {card}
        /\ p.gold = m.players[w].gold - 0
    BY <2>3, <2>4 DEF AddCard, PlayerType, Owned
  <2>. HIDE DEF p, w, card, table, r
  <2>6. Sold(m.players, r.players, w, card, 0)
    BY <1>1, <2>2, <2>3, <2>5, BuyerGets
  <2>. QED
    BY <1>3, <2>2, <2>3, <2>6 DEF r, card, table
<1>. QED
  BY <1>2, <1>3

LEMMA AuctionEnds ==
    ASSUME NEW m, Playing(m), Orderly(m), m.currentPhase = "Auction"
    PROVE  LET r == OnAuctionPhase(m)
               table == m.cardsInAuction
           IN  /\ Sold(m.players, r.players, Leader(m), Head(table),
                       m.currentOffer)
               /\ r.cardsInAuction = Tail(table)
               /\ r.currentPhase =
                    IF Tail(table) = <<>> THEN "TurnEnd" ELSE "Attack"
<1>. DEFINE r == OnAuctionPhase(m)
            table == m.cardsInAuction
            w == GetCurrentWinner(m)
            card == Head(table)
            price == m.currentOffer
            sold == IsThereWinner(m) /\ WinnerIndices(m) # {}
            p == Pay(AddCard(m.players[w], card), price)
<1>1. /\ MatchType(m) /\ m.players \in Seq(PlayerType) /\ price \in Nat
      /\ table \in Seq(Card) /\ table # <<>>
  BY DEF Playing, Sound, MatchType
<1>2. /\ r.cardsInAuction = Tail(table)
      /\ r.currentPhase = IF Tail(table) = <<>> THEN "TurnEnd" ELSE "Attack"
      /\ r.players = ResetAll(IF sold THEN [m.players EXCEPT ![w] = p]
                              ELSE m.players)
      /\ sold => price <= m.players[w].gold
  BY AuctionResult
<1>3. CASE WinnerIndices(m) = {}
  <2>1. r.players = ResetAll(m.players) /\ Leader(m) = 0
    BY <1>2, <1>3 DEF Leader
  <2>2. Sold(m.players, r.players, 0, card, price)
    BY <1>1, <2>1, ResetUnmoved, UnmovedIsSold
  <2>. QED
    BY <1>2, <2>1, <2>2
<1>4. CASE WinnerIndices(m) # {}
  <2>1. sold
    BY <1>4 DEF Orderly, BidOn, IsThereWinner
  <2>2. /\ w = Leader(m) /\ w \in 1..Len(m.players)
        /\ m.players[w] \in PlayerType /\ price <= m.players[w].gold
    BY <1>1, <1>2, <1>4, <2>1, LeaderIs, ElementOfSeq
  <2>3. card \in Card
    BY <1>1
  <2>4. /\ p \in PlayerType /\ p.name = m.players[w].name
        /\ Owned(p) = Owned(m.players[w]) \cup {card}
        /\ p.gold = m.players[w].gold - price
    <3>. DEFINE q == AddCard(m.players[w], card)
    <3>1. /\ q \in PlayerType /\ q.name = m.players[w].name
          /\ Owned(q) = Owned(m.players[w]) \cup {card}
          /\ q.gold = m.players[w].gold
      BY <2>2, <2>3 DEF AddCard, PlayerType, Owned
    <3>2. p = Pay(q, price)
      OBVIOUS
    <3>. HIDE DEF p, q, w, price, card
    <3>3. q.gold \in Nat /\ q.gold - price \in Nat
      BY <1>1, <2>2, <3>1 DEF PlayerType
    <3>4. /\ p \in PlayerType /\ p.name = q.name /\ p.gold = q.gold - price
          /\ p.activeCards = q.activeCards
          /\ p.purchasedThisTurnCards = q.purchasedThisTurnCards
      BY <3>1, <3>2, <3>3 DEF Pay, PlayerType
    <3>. QED
      BY <3>1, <3>4 DEF Owned
  <2>5. r.players = ResetAll([m.players EXCEPT ![w] = p])
    BY <1>2, <2>1
  <2>. HIDE DEF p, w, card, table, price, r
  <2>6. Sold(m.players, r.players, w, card, price)
    BY <1>1, <2>2, <2>4, <2>5, BuyerGets
  <2>. QED
    BY <1>2, <2>2, <2>6 DEF r, card, table, price
<1>. QED
  BY <1>3, <1>4

(* After the last card of the turn the turn ends; after another one the    *)
(* next is disputed.                                                       *)
LEMMA NextDispute ==
    ASSUME NEW m, Playing(m), Undisputed(m),
           m.currentPhase = IF m.cardsInAuction = <<>> THEN "TurnEnd"
                            ELSE "Attack"
    PROVE  LET r == OnPhase(OnPhase(OnPhase(OnPhase(m))))
           IN  /\ Opened(r)
               /\ m.cardsInAuction # <<>> =>
                    /\ Unmoved(m.players, r.players)
                    /\ r.cardsInAuction = m.cardsInAuction
               /\ m.cardsInAuction = <<>> => Produces(m.players, r.players)
<1>1. CASE m.cardsInAuction = <<>>
  <2>. DEFINE r3 == OnPhase(OnPhase(OnPhase(m)))
  <2>1. Opened(r3) /\ Produces(m.players, r3.players)
    BY <1>1, TurnEnds
  <2>2. OnPhase(r3) = r3
    BY <2>1, RestingStays DEF Opened
  <2>. QED
    BY <1>1, <2>1, <2>2
<1>2. CASE m.cardsInAuction # <<>>
  <2>. DEFINE r1 == OnPhase(m)
  <2>1. /\ Opened(r1) /\ Unmoved(m.players, r1.players)
        /\ r1.cardsInAuction = m.cardsInAuction
    BY <1>2, AttackOpens
  <2>2. OnPhase(r1) = r1
    BY <2>1, RestingStays DEF Opened
  <2>. QED
    BY <1>2, <2>1, <2>2
<1>. QED
  BY <1>1, <1>2

(* What processPhase() makes of a dispute in which nobody is awaited.      *)
Ended(m, r) ==
    /\ Opened(r)
    /\ \/ /\ m.currentPhase = "Attack" /\ Leader(m) = 0
          /\ Unmoved(m.players, r.players)
          /\ r.cardsInAuction = m.cardsInAuction /\ r.currentPhase = "Auction"
       \/ /\ m.currentPhase = "Attack" => Leader(m) # 0
          /\ \E q : /\ MatchType(q)
                    /\ Sold(m.players, q.players, Leader(m),
                            Head(m.cardsInAuction), PriceOf(m))
                    /\ \/ /\ Tail(m.cardsInAuction) # <<>>
                          /\ Unmoved(q.players, r.players)
                          /\ r.cardsInAuction = Tail(m.cardsInAuction)
                       \/ /\ Tail(m.cardsInAuction) = <<>>
                          /\ Produces(q.players, r.players)

LEMMA DisputeEnds ==
    ASSUME NEW m, Playing(m), Orderly(m), ~Resting(m),
           m.currentPhase \in {"Attack", "Auction"}
    PROVE  Ended(m, ProcessPhase(m))
<1>. DEFINE q == OnPhase(m)
            r == OnPhase(OnPhase(OnPhase(OnPhase(q))))
            table == m.cardsInAuction
<1>1. ProcessPhase(m) = r
  BY DEF ProcessPhase
<1>2. MatchType(m)
  BY DEF Playing, Sound
<1>3. ASSUME MatchType(q), Playing(q), Undisputed(q),
             Sold(m.players, q.players, Leader(m), Head(table), PriceOf(m)),
             q.cardsInAuction = Tail(table),
             q.currentPhase = IF Tail(table) = <<>> THEN "TurnEnd" ELSE "Attack",
             m.currentPhase = "Attack" => Leader(m) # 0
      PROVE  Ended(m, r)
  <2>. HIDE DEF q
  <2>1. /\ Opened(r)
        /\ q.cardsInAuction # <<>> => /\ Unmoved(q.players, r.players)
                                      /\ r.cardsInAuction = q.cardsInAuction
        /\ q.cardsInAuction = <<>> => Produces(q.players, r.players)
    BY <1>3, NextDispute
  <2>. HIDE DEF r
  <2>. QED
    BY <1>3, <2>1 DEF Ended
<1>4. CASE m.currentPhase = "Auction"
  <2>1. q = OnAuctionPhase(m)
    BY <1>4, PhaseMethod
  <2>2. Playing(q) /\ Undisputed(q) /\ MatchType(q)
    BY <1>4, <2>1, AuctionSound DEF Playing, Sound
  <2>. HIDE DEF q
  <2>3. /\ Sold(m.players, q.players, Leader(m), Head(table), PriceOf(m))
        /\ q.cardsInAuction = Tail(table)
        /\ q.currentPhase = IF Tail(table) = <<>> THEN "TurnEnd" ELSE "Attack"
    BY <1>4, <2>1, AuctionEnds DEF PriceOf
  <2>. QED
    BY <1>1, <1>3, <1>4, <2>2, <2>3
<1>5. CASE m.currentPhase = "Attack"
  <2>1. q = OnAttackPhase(m)
    BY <1>5, PhaseMethod
  <2>2. Playing(q) /\ Undisputed(q) /\ MatchType(q)
    BY <1>5, <2>1, AttackSound DEF Playing, Sound
  <2>. HIDE DEF q
  <2>3. CASE WinnerIndices(m) # {}
    <3>1. /\ Sold(m.players, q.players, Leader(m), Head(table), PriceOf(m))
          /\ q.cardsInAuction = Tail(table)
          /\ q.currentPhase = IF Tail(table) = <<>> THEN "TurnEnd" ELSE "Attack"
      BY <1>5, <2>1, <2>3, AttackEnds DEF PriceOf
    <3>2. Leader(m) # 0
      BY <1>2, <2>3, LeaderIs
    <3>. QED
      BY <1>1, <1>3, <2>2, <3>1, <3>2
  <2>4. CASE WinnerIndices(m) = {}
    <3>1. /\ Unmoved(m.players, q.players) /\ Leader(m) = 0
          /\ q.cardsInAuction = table /\ q.currentPhase = "Auction"
      BY <1>5, <2>1, <2>4, AttackEnds DEF Leader
    <3>2. Resting(q) /\ Opened(q)
      BY <2>2, <3>1, FreshAuctionRests DEF Opened
    <3>3. r = q
      BY <3>2, RestingStays
    <3>. QED
      BY <1>1, <1>5, <3>1, <3>2, <3>3 DEF Ended
  <2>. QED
    BY <2>3, <2>4
<1>. QED
  BY <1>4, <1>5

-----------------------------------------------------------------------------
(* The actions of Auction, from one record to another.                     *)

OpensTo(r) ==
    /\ BidOf(r) = 0 /\ LeaderOf(r) = NoName
    /\ KindOf(r) \in {"force", "gold", "none"}
    /\ KindOf(r) = "none" <=> r.cardsInAuction = <<>>

SettlesTo(m, r, winner, price) ==
    LET paid == IF winner = NoName THEN GoldIn(m)
                ELSE [GoldIn(m) EXCEPT ![winner] = @ - price]
        table == m.cardsInAuction
    IN  /\ OpensTo(r)
        /\ HandsIn(r) = IF winner = NoName THEN HandsIn(m)
                        ELSE [HandsIn(m) EXCEPT ![winner] = @ \cup {Head(table)}]
        /\ \/ /\ Tail(table) # <<>>
              /\ r.cardsInAuction = Tail(table) /\ GoldIn(r) = paid
           \/ /\ Tail(table) = <<>>
              /\ GoldIn(r) = [p \in DOMAIN GoldIn(m) |->
                                paid[p] + TotalProduction(HandsIn(r)[p])]

BidsOf(m, n) ==
    LET Higher(amounts) ==
            [amount : {x \in amounts : x > BidOf(m)}, leader : {n}]
        Forces == {TotalAttack(S) : S \in SUBSET HandsIn(m)[n]}
        Offers == 0..GoldIn(m)[n]
    IN  {[amount |-> BidOf(m), leader |-> LeaderOf(m)]}
            \cup (IF KindOf(m) = "force" THEN Higher(Forces) ELSE Higher(Offers))
            \cup (IF /\ KindOf(m) = "gold" /\ n # LeaderOf(m) /\ 0 < BidOf(m)
                     /\ BidOf(m) <= GoldIn(m)[n]
                  THEN {[amount |-> BidOf(m), leader |-> NoName]} ELSE {})

StandsTo(m, r, b) ==
    /\ BidOf(r) = b.amount /\ LeaderOf(r) = b.leader
    /\ r.cardsInAuction = m.cardsInAuction /\ KindOf(r) = KindOf(m)
    /\ GoldIn(r) = GoldIn(m) /\ HandsIn(r) = HandsIn(m)

ClosesTo(m, r, b) ==
    \/ /\ KindOf(m) = "force" /\ b.leader = NoName
       /\ KindOf(r) = "gold" /\ BidOf(r) = 0 /\ LeaderOf(r) = NoName
       /\ r.cardsInAuction = m.cardsInAuction
       /\ GoldIn(r) = GoldIn(m) /\ HandsIn(r) = HandsIn(m)
    \/ /\ KindOf(m) = "force" /\ b.leader # NoName
       /\ SettlesTo(m, r, b.leader, 0)
    \/ KindOf(m) = "gold" /\ SettlesTo(m, r, b.leader, b.amount)

MoveTo(m, r, n) ==
    /\ KindOf(m) # "none" /\ n \in DOMAIN GoldIn(m)
    /\ \E b \in BidsOf(m, n) : StandsTo(m, r, b) \/ ClosesTo(m, r, b)

EnterTo(m, r, n) ==
    LET players == DOMAIN GoldIn(m)
    IN  /\ KindOf(m) = "none" /\ n \notin players
        /\ HandsIn(r) = [p \in players \cup {n} |->
                           IF p = n THEN {} ELSE HandsIn(m)[p]]
        /\ \/ /\ GoldIn(r) = [p \in players \cup {n} |->
                                IF p = n THEN 0 ELSE GoldIn(m)[p]]
              /\ r.cardsInAuction = m.cardsInAuction /\ KindOf(r) = KindOf(m)
              /\ BidOf(r) = BidOf(m) /\ LeaderOf(r) = LeaderOf(m)
           \/ OpensTo(r) /\ GoldIn(r) \in [players \cup {n} -> Nat]

ExitTo(m, r, n) ==
    LET players == DOMAIN GoldIn(m)
    IN  /\ n \in players
        /\ GoldIn(r) = [p \in players \ {n} |-> GoldIn(m)[p]]
        /\ HandsIn(r) = [p \in players \ {n} |-> HandsIn(m)[p]]
        /\ LeaderOf(r) = IF LeaderOf(m) = n THEN NoName ELSE LeaderOf(m)
        /\ r.cardsInAuction = m.cardsInAuction /\ KindOf(r) = KindOf(m)
        /\ BidOf(r) = BidOf(m)

LEMMA ViewsAre ==
    /\ KindOf(match)' = KindOf(match') /\ BidOf(match)' = BidOf(match')
    /\ LeaderOf(match)' = LeaderOf(match')
    /\ GoldIn(match)' = GoldIn(match') /\ HandsIn(match)' = HandsIn(match')
<1>1. KindOf(match)' = KindOf(match') /\ BidOf(match)' = BidOf(match')
  BY DEF KindOf, BidOf
<1>2. LeaderOf(match)' = LeaderOf(match')
  BY DEF LeaderOf, WinnerIndices, GetCurrentWinner, NameAt
<1>3. GoldIn(match)' = GoldIn(match')
  BY DEF GoldIn, NamesOf, NameAt, GoldOf, GetPlayerIndex
<1>4. HandsIn(match)' = HandsIn(match')
  BY DEF HandsIn, NamesOf, NameAt, Owned, GetPlayerIndex
<1>. QED
  BY <1>1, <1>2, <1>3, <1>4

LEMMA MoveIs == ASSUME NEW n, MoveTo(match, match', n) PROVE Dispute!Move(n)
BY ViewsAre DEF MoveTo, BidsOf, StandsTo, ClosesTo, SettlesTo, OpensTo,
     Dispute!Move, Dispute!Bids, Dispute!Stands, Dispute!Closes,
     Dispute!Settles, Dispute!Opens, Dispute!Players

LEMMA EnterIs == ASSUME NEW n, EnterTo(match, match', n) PROVE Dispute!Enter(n)
BY ViewsAre DEF EnterTo, OpensTo, Dispute!Enter, Dispute!Opens, Dispute!Players

LEMMA ExitIs == ASSUME NEW n, ExitTo(match, match', n) PROVE Dispute!Exit(n)
BY ViewsAre DEF ExitTo, Dispute!Exit, Dispute!Players

-----------------------------------------------------------------------------
(* Every step of a match is one of these.                                  *)

LEMMA OpenedOpens ==
    ASSUME NEW r, Opened(r)
    PROVE  OpensTo(r) /\ Orderly(r) /\ WinnerIndices(r) = {}
<1>1. MatchType(r) /\ AllReset(r.players)
  BY DEF Opened, Playing, Sound, Undisputed
<1>2. WinnerIndices(r) = {}
  <2>1. DOMAIN r.players = 1..Len(r.players)
    BY <1>1 DEF MatchType
  <2>. QED
    BY <1>1, <2>1 DEF AllReset, WinnerIndices
<1>3. /\ r.currentPhase \in {"Attack", "Auction"} => r.cardsInAuction # <<>>
      /\ r.currentAttack = 0 /\ r.currentOffer = 0
  BY DEF Opened, Playing, Sound, Undisputed
<1>4. BidOf(r) = 0 /\ LeaderOf(r) = NoName
  BY <1>2, <1>3 DEF BidOf, LeaderOf
<1>5. /\ KindOf(r) \in {"force", "gold", "none"}
      /\ KindOf(r) = "none" <=> r.cardsInAuction = <<>>
  BY <1>3 DEF KindOf, Opened
<1>. QED
  BY <1>2, <1>4, <1>5 DEF OpensTo, Orderly, Opened

(* The nickname of the leader.                                             *)
LEMMA LeaderIsNamed ==
    ASSUME NEW m, NamedApart(m)
    PROVE  /\ Leader(m) = 0 => LeaderOf(m) = NoName
           /\ Leader(m) # 0 => /\ Leader(m) \in 1..Len(m.players)
                               /\ LeaderOf(m) = NameAt(m, Leader(m))
                               /\ LeaderOf(m) \in Name
           /\ LeaderOf(m) = NoName <=> WinnerIndices(m) = {}
<1>1. CASE WinnerIndices(m) = {}
  BY <1>1 DEF Leader, LeaderOf
<1>2. CASE WinnerIndices(m) # {}
  <2>1. /\ Leader(m) = GetCurrentWinner(m) /\ Leader(m) \in 1..Len(m.players)
    BY <1>2, LeaderIs DEF NamedApart
  <2>2. LeaderOf(m) = NameAt(m, Leader(m)) /\ LeaderOf(m) \in Name
    BY <1>2, <2>1, NameOfIndex DEF LeaderOf
  <2>. QED
    BY <1>2, <2>1, <2>2, NameAssumption
<1>. QED
  BY <1>1, <1>2

(* What a sale does to who owns what, by nickname.                         *)
LEMMA SoldOwners ==
    ASSUME NEW m, NamedApart(m), NEW r, MatchType(r), NEW card, NEW price,
           Sold(m.players, r.players, Leader(m), card, price)
    PROVE  LET winner == LeaderOf(m)
           IN  /\ GoldIn(r) = IF winner = NoName THEN GoldIn(m)
                              ELSE [GoldIn(m) EXCEPT ![winner] = @ - price]
               /\ HandsIn(r) = IF winner = NoName THEN HandsIn(m)
                               ELSE [HandsIn(m) EXCEPT ![winner] = @ \cup {card}]
<1>. DEFINE winner == LeaderOf(m)
            w == Leader(m)
            gold == IF winner = NoName THEN GoldIn(m)
                    ELSE [GoldIn(m) EXCEPT ![winner] = @ - price]
            hands == IF winner = NoName THEN HandsIn(m)
                     ELSE [HandsIn(m) EXCEPT ![winner] = @ \cup {card}]
<1>1. /\ NamedApart(r) /\ NamesOf(r) = NamesOf(m)
      /\ \A i \in 1..Len(m.players) : NameAt(r, i) = NameAt(m, i)
      /\ Len(r.players) = Len(m.players)
  BY SameNamesSeated DEF Sold, SameNames
<1>2. /\ GoldIn(m) = [n \in NamesOf(m) |-> GoldIn(m)[n]]
      /\ HandsIn(m) = [n \in NamesOf(m) |-> HandsIn(m)[n]]
  BY DEF GoldIn, HandsIn
<1>3. gold = [n \in NamesOf(r) |-> gold[n]]
      /\ hands = [n \in NamesOf(r) |-> hands[n]]
  BY <1>1, <1>2
<1>4. ASSUME NEW i \in 1..Len(m.players)
      PROVE  /\ gold[NameAt(m, i)] = r.players[i].gold
             /\ hands[NameAt(m, i)] = Hand(r.players, i)
  <2>1. /\ NameAt(m, i) \in NamesOf(m) /\ NameAt(m, i) # NoName
        /\ GoldIn(m)[NameAt(m, i)] = m.players[i].gold
        /\ HandsIn(m)[NameAt(m, i)] = Hand(m.players, i)
    BY NameOfIndex, OwnersAre, NameAssumption
  <2>2. winner = NameAt(m, i) <=> i = w
    BY <2>1, NameOfIndex, LeaderIsNamed
  <2>3. winner = NoName <=> w = 0
    BY LeaderIsNamed, NameAssumption
  <2>. HIDE DEF winner, w
  <2>4. /\ gold[NameAt(m, i)] = IF i = w THEN m.players[i].gold - price
                                ELSE m.players[i].gold
        /\ hands[NameAt(m, i)] = IF i = w THEN Hand(m.players, i) \cup {card}
                                 ELSE Hand(m.players, i)
    BY <1>2, <2>1, <2>2, <2>3
  <2>. QED
    BY <2>4 DEF Sold, w
<1>. HIDE DEF gold, hands
<1>5. \A i \in 1..Len(r.players) :
        /\ gold[NameAt(r, i)] = r.players[i].gold
        /\ hands[NameAt(r, i)] = Hand(r.players, i)
  BY <1>1, <1>4
<1>6. GoldIn(r) = gold
  BY <1>1, <1>3, <1>5, GoldIs
<1>7. HandsIn(r) = hands
  BY <1>1, <1>3, <1>5, HandsAre
<1>. QED
  BY <1>6, <1>7 DEF gold, hands

LEMMA ProducedOwners ==
    ASSUME NEW m, NamedApart(m), NEW r, MatchType(r),
           Produces(m.players, r.players)
    PROVE  /\ HandsIn(r) = HandsIn(m)
           /\ GoldIn(r) = [p \in NamesOf(m) |->
                             GoldIn(m)[p] + TotalProduction(HandsIn(m)[p])]
<1>. DEFINE gold == [p \in NamesOf(m) |->
                       GoldIn(m)[p] + TotalProduction(HandsIn(m)[p])]
            hands == HandsIn(m)
<1>1. /\ NamedApart(r) /\ NamesOf(r) = NamesOf(m)
      /\ \A i \in 1..Len(m.players) : NameAt(r, i) = NameAt(m, i)
      /\ Len(r.players) = Len(m.players)
  BY SameNamesSeated DEF Produces, SameNames
<1>2. gold = [n \in NamesOf(r) |-> gold[n]]
      /\ hands = [n \in NamesOf(r) |-> hands[n]]
  BY <1>1 DEF HandsIn
<1>3. ASSUME NEW i \in 1..Len(m.players)
      PROVE  /\ gold[NameAt(m, i)] = r.players[i].gold
             /\ hands[NameAt(m, i)] = Hand(r.players, i)
  <2>1. /\ NameAt(m, i) \in NamesOf(m)
        /\ GoldIn(m)[NameAt(m, i)] = m.players[i].gold
        /\ HandsIn(m)[NameAt(m, i)] = Hand(m.players, i)
    BY NameOfIndex, OwnersAre
  <2>2. /\ r.players[i].gold = m.players[i].gold
                                 + TotalProduction(Hand(m.players, i))
        /\ Hand(r.players, i) = Hand(m.players, i)
    BY DEF Produces
  <2>. QED
    BY <2>1, <2>2
<1>. HIDE DEF gold, hands
<1>4. \A i \in 1..Len(r.players) :
        /\ gold[NameAt(r, i)] = r.players[i].gold
        /\ hands[NameAt(r, i)] = Hand(r.players, i)
  BY <1>1, <1>3
<1>5. GoldIn(r) = gold
  BY <1>1, <1>2, <1>4, GoldIs
<1>6. HandsIn(r) = hands
  BY <1>1, <1>2, <1>4, HandsAre
<1>. QED
  BY <1>5, <1>6 DEF gold, hands

(* Who leads a dispute and with what, as a bid.                            *)
BidIn(m) == [amount |-> BidOf(m), leader |-> LeaderOf(m)]

LEMMA EndedCloses ==
    ASSUME NEW m, NamedApart(m), m.currentPhase \in {"Attack", "Auction"},
           NEW r, Ended(m, r)
    PROVE  ClosesTo(m, r, BidIn(m))
<1>. DEFINE table == m.cardsInAuction
            winner == LeaderOf(m)
<1>1. MatchType(r) /\ OpensTo(r)
  BY OpenedOpens DEF Ended, Opened, Playing, Sound
<1>2. BidIn(m).amount = BidOf(m) /\ BidIn(m).leader = winner
  BY DEF BidIn
<1>3. ASSUME m.currentPhase = "Attack", Leader(m) = 0,
             Unmoved(m.players, r.players), r.cardsInAuction = table,
             r.currentPhase = "Auction"
      PROVE  ClosesTo(m, r, BidIn(m))
  <2>1. GoldIn(r) = GoldIn(m) /\ HandsIn(r) = HandsIn(m)
    BY <1>1, <1>3, UnmovedOwners
  <2>2. winner = NoName /\ KindOf(m) = "force" /\ KindOf(r) = "gold"
    BY <1>3, LeaderIsNamed DEF KindOf
  <2>. QED
    BY <1>1, <1>2, <1>3, <2>1, <2>2 DEF ClosesTo, OpensTo
<1>4. ASSUME m.currentPhase = "Attack" => Leader(m) # 0,
             NEW q, MatchType(q),
             Sold(m.players, q.players, Leader(m), Head(table), PriceOf(m)),
             \/ /\ Tail(table) # <<>> /\ Unmoved(q.players, r.players)
                /\ r.cardsInAuction = Tail(table)
             \/ Tail(table) = <<>> /\ Produces(q.players, r.players)
      PROVE  ClosesTo(m, r, BidIn(m))
  <2>. DEFINE price == PriceOf(m)
              paid == IF winner = NoName THEN GoldIn(m)
                      ELSE [GoldIn(m) EXCEPT ![winner] = @ - price]
  <2>1. NamedApart(q) /\ NamesOf(q) = NamesOf(m)
    BY <1>4, SameNamesSeated DEF Sold
  <2>2. /\ GoldIn(q) = paid
        /\ HandsIn(q) = IF winner = NoName THEN HandsIn(m)
                        ELSE [HandsIn(m) EXCEPT ![winner] = @ \cup {Head(table)}]
    BY <1>4, SoldOwners
  <2>3. HandsIn(r) = HandsIn(q)
    BY <1>1, <1>4, <2>1, UnmovedOwners, ProducedOwners
  <2>4. Tail(table) # <<>> => GoldIn(r) = paid /\ r.cardsInAuction = Tail(table)
    BY <1>1, <1>4, <2>1, <2>2, UnmovedOwners
  <2>5. DOMAIN GoldIn(m) = NamesOf(m)
    BY OwnersAre
  <2>6. Tail(table) = <<>> =>
            GoldIn(r) = [p \in DOMAIN GoldIn(m) |->
                           paid[p] + TotalProduction(HandsIn(r)[p])]
    <3>1. SUFFICES ASSUME Tail(table) = <<>>
                   PROVE  GoldIn(r) = [p \in NamesOf(m) |->
                             GoldIn(q)[p] + TotalProduction(HandsIn(q)[p])]
      BY <2>2, <2>3, <2>5
    <3>. QED
      BY <1>1, <1>4, <2>1, <3>1, ProducedOwners
  <2>. HIDE DEF table, winner, price
  <2>7. SettlesTo(m, r, winner, price)
    BY <1>1, <2>2, <2>3, <2>4, <2>6 DEF SettlesTo, table
  <2>8. CASE m.currentPhase = "Attack"
    <3>1. KindOf(m) = "force" /\ price = 0 /\ winner # NoName
      BY <1>4, <2>8, LeaderIsNamed, NameAssumption
         DEF KindOf, PriceOf, price, winner
    <3>. QED
      BY <1>2, <2>7, <3>1 DEF ClosesTo
  <2>9. CASE m.currentPhase = "Auction"
    <3>1. KindOf(m) = "gold" /\ price = BidOf(m)
      BY <2>9 DEF KindOf, PriceOf, BidOf, price
    <3>. QED
      BY <1>2, <2>7, <3>1 DEF ClosesTo
  <2>. QED
    BY <2>8, <2>9
<1>. QED
  BY <1>3, <1>4 DEF Ended

(* An input that is accepted is a bid of one of the players.               *)
LEMMA BidsKeep ==
    ASSUME NEW m, NamedApart(m), Orderly(m), NEW h, Bids(m, h)
    PROVE  /\ NamedApart(h) /\ KindOf(h) = KindOf(m) /\ KindOf(m) # "none"
           /\ GoldIn(h) = GoldIn(m) /\ HandsIn(h) = HandsIn(m)
           /\ h.cardsInAuction = m.cardsInAuction
           /\ BidOf(m) = BidOn(m) /\ BidOf(h) = BidOn(h)
           /\ \A i \in 1..Len(m.players) : NameAt(h, i) = NameAt(m, i)
           /\ Len(h.players) = Len(m.players)
<1>1. MatchType(h) /\ Unmoved(m.players, h.players)
  BY SameHandsUnmoved DEF Bids, Playing, Sound
<1>2. /\ NamedApart(h) /\ Len(h.players) = Len(m.players)
      /\ \A i \in 1..Len(m.players) : NameAt(h, i) = NameAt(m, i)
  BY <1>1, SameNamesSeated DEF Unmoved, SameNames
<1>3. GoldIn(h) = GoldIn(m) /\ HandsIn(h) = HandsIn(m)
  BY <1>1, UnmovedOwners
<1>4. /\ KindOf(h) = KindOf(m) /\ KindOf(m) # "none"
      /\ BidOf(m) = BidOn(m) /\ BidOf(h) = BidOn(h)
      /\ h.cardsInAuction = m.cardsInAuction
  BY DEF Bids, KindOf, BidOf, BidOn
<1>. QED
  BY <1>2, <1>3, <1>4

LEMMA BidIsMade ==
    ASSUME NEW m, NamedApart(m), Orderly(m), NEW h, Bids(m, h)
    PROVE  /\ Orderly(h)
           /\ \E n \in Name : /\ n \in DOMAIN GoldIn(m)
                              /\ BidIn(h) \in BidsOf(m, n)
<1>1. PICK i \in 1..Len(m.players) : BidBy(m, h, i)
  BY DEF Bids
<1>. DEFINE n == NameAt(m, i)
<1>2. /\ NamedApart(h) /\ KindOf(h) = KindOf(m)
      /\ BidOf(m) = BidOn(m) /\ BidOf(h) = BidOn(h)
      /\ NameAt(h, i) = n /\ Len(h.players) = Len(m.players)
      /\ \A j \in 1..Len(m.players) : NameAt(h, j) = NameAt(m, j)
  BY BidsKeep
<1>3. /\ n \in Name /\ n \in DOMAIN GoldIn(m) /\ n \in DOMAIN HandsIn(m)
      /\ GoldIn(m)[n] = m.players[i].gold
      /\ HandsIn(m)[n] = Hand(m.players, i)
  BY NameOfIndex, OwnersAre
<1>4. /\ DOMAIN m.players = 1..Len(m.players)
      /\ DOMAIN h.players = 1..Len(m.players)
      /\ BidOn(m) \in Nat /\ BidOn(h) \in Nat /\ m.players[i].gold \in Nat
      /\ m.players[i] \in PlayerType
  <2>1. MatchType(m) /\ MatchType(h) /\ m.players[i] \in PlayerType
    BY <1>2, ElementOfSeq DEF NamedApart, MatchType
  <2>2. DOMAIN m.players = 1..Len(m.players)
        /\ DOMAIN h.players = 1..Len(h.players)
    BY <2>1 DEF MatchType
  <2>3. BidOn(m) \in Nat /\ BidOn(h) \in Nat
    BY <2>1 DEF MatchType, BidOn
  <2>. QED
    BY <1>2, <2>1, <2>2, <2>3 DEF PlayerType
<1>5. /\ m.currentPhase = h.currentPhase
      /\ m.currentPhase \in {"Attack", "Auction"}
      /\ m.currentPhase = "Attack" <=> KindOf(m) = "force"
      /\ m.currentPhase = "Auction" <=> KindOf(m) = "gold"
  BY DEF Bids, KindOf
<1>. HIDE DEF n
<1>6. CASE Passes(m, h)
  <2>1. BidOn(h) = BidOn(m) /\ WinnerIndices(h) = WinnerIndices(m)
    BY <1>4, <1>6 DEF Passes, WinnerIndices
  <2>2. LeaderOf(h) = LeaderOf(m)
    <3>1. CASE WinnerIndices(m) = {}
      BY <2>1, <3>1 DEF LeaderOf
    <3>2. CASE WinnerIndices(m) # {}
      <4>1. GetCurrentWinner(h) = GetCurrentWinner(m)
        BY <2>1 DEF GetCurrentWinner
      <4>2. GetCurrentWinner(m) \in 1..Len(m.players)
        BY <3>2, WinnerIndex DEF NamedApart
      <4>. QED
        BY <1>2, <2>1, <4>1, <4>2 DEF LeaderOf
    <3>. QED
      BY <3>1, <3>2
  <2>3. BidIn(h) \in BidsOf(m, n)
    BY <1>2, <2>1, <2>2 DEF BidIn, BidsOf
  <2>4. Orderly(h)
    BY <1>5, <2>1 DEF Orderly
  <2>. QED
    BY <1>3, <2>3, <2>4
<1>7. CASE Raises(m, h, i)
  <2>1. WinnerIndices(h) = {i}
    BY <1>2, <1>4, <1>7 DEF Raises, Leads, WinnerIndices
  <2>2. LeaderOf(h) = n
    <3>1. GetCurrentWinner(h) \in WinnerIndices(h)
      BY <1>2, <2>1, LeaderIs DEF NamedApart
    <3>. QED
      BY <1>2, <2>1, <3>1 DEF LeaderOf
  <2>3. BidOf(h) > BidOf(m) /\ BidOn(h) # 0
    BY <1>2, <1>4, <1>7 DEF Raises
  <2>4. KindOf(m) = "force"
          => BidOf(h) \in {TotalAttack(S) : S \in SUBSET HandsIn(m)[n]}
    <3>1. m.players[i].activeCards \in SUBSET Hand(m.players, i)
      BY DEF Hand, Owned
    <3>. QED
      BY <1>2, <1>3, <1>5, <1>7, <3>1 DEF Raises
  <2>5. KindOf(m) # "force" => BidOf(h) \in 0..GoldIn(m)[n]
    BY <1>2, <1>3, <1>4, <1>5, <1>7 DEF Raises
  <2>6. BidIn(h) \in BidsOf(m, n)
    BY <2>2, <2>3, <2>4, <2>5 DEF BidIn, BidsOf
  <2>7. Orderly(h)
    BY <1>5, <2>1, <2>3 DEF Orderly
  <2>. QED
    BY <1>3, <2>6, <2>7
<1>8. CASE Equals(m, h, i)
  <2>1. WinnerIndices(h) = {}
    BY <1>2, <1>4, <1>8 DEF Equals, WinnerIndices
  <2>2. LeaderOf(h) = NoName
    BY <2>1 DEF LeaderOf
  <2>3. n # LeaderOf(m)
    <3>1. CASE WinnerIndices(m) = {}
      BY <1>3, <3>1, NameAssumption DEF LeaderOf
    <3>2. CASE WinnerIndices(m) # {}
      <4>1. /\ GetCurrentWinner(m) \in 1..Len(m.players)
            /\ m.players[GetCurrentWinner(m)].isWinningAuction
        BY <3>2, WinnerIndex DEF NamedApart
      <4>2. GetCurrentWinner(m) # i
        BY <1>8, <4>1 DEF Equals
      <4>. QED
        BY <3>2, <4>1, <4>2, NameOfIndex DEF LeaderOf, n
    <3>. QED
      BY <3>1, <3>2
  <2>4. /\ KindOf(m) = "gold" /\ 0 < BidOf(m) /\ BidOf(m) <= GoldIn(m)[n]
        /\ BidOf(h) = BidOf(m)
    BY <1>2, <1>3, <1>5, <1>8 DEF Equals
  <2>5. BidIn(h) \in BidsOf(m, n)
    BY <2>2, <2>3, <2>4 DEF BidIn, BidsOf
  <2>6. Orderly(h)
    BY <1>5, <2>1 DEF Orderly
  <2>. QED
    BY <1>3, <2>5, <2>6
<1>. QED
  BY <1>1, <1>6, <1>7, <1>8 DEF BidBy

LEMMA BidMoves ==
    ASSUME NEW m, NamedApart(m), Orderly(m), NEW h, Bids(m, h)
    PROVE  LET r == ProcessPhase(h)
           IN  Orderly(r) /\ \E n \in Name : MoveTo(m, r, n)
<1>. DEFINE r == ProcessPhase(h)
<1>1. /\ NamedApart(h) /\ KindOf(h) = KindOf(m) /\ KindOf(m) # "none"
      /\ GoldIn(h) = GoldIn(m) /\ HandsIn(h) = HandsIn(m)
      /\ h.cardsInAuction = m.cardsInAuction
  BY BidsKeep
<1>2. PICK n \in Name : n \in DOMAIN GoldIn(m) /\ BidIn(h) \in BidsOf(m, n)
  BY BidIsMade
<1>3. Orderly(h) /\ Playing(h) /\ h.currentPhase \in {"Attack", "Auction"}
  BY BidIsMade DEF Bids
<1>4. CASE Resting(h)
  <2>1. r = h
    BY <1>4, RestingStays DEF ProcessPhase
  <2>2. StandsTo(m, h, BidIn(h))
    BY <1>1 DEF StandsTo, BidIn
  <2>3. MoveTo(m, h, n)
    BY <1>1, <1>2, <2>2 DEF MoveTo
  <2>. QED
    BY <1>3, <2>1, <2>3
<1>5. CASE ~Resting(h)
  <2>1. Ended(h, r)
    BY <1>3, <1>5, DisputeEnds
  <2>. HIDE DEF r
  <2>2. ClosesTo(h, r, BidIn(h))
    BY <1>1, <1>3, <2>1, EndedCloses
  <2>3. ClosesTo(m, r, BidIn(h))
    <3>. DEFINE b == BidIn(h)
    <3>. HIDE DEF b
    <3>1. ClosesTo(h, r, b) <=> ClosesTo(m, r, b)
      BY <1>1 DEF ClosesTo, SettlesTo
    <3>. QED
      BY <2>2, <3>1 DEF b
  <2>4. MoveTo(m, r, n)
    BY <1>1, <1>2, <2>3 DEF MoveTo
  <2>5. Orderly(r)
    BY <2>1, OpenedOpens DEF Ended
  <2>. QED
    BY <2>4, <2>5 DEF r
<1>. QED
  BY <1>4, <1>5

-----------------------------------------------------------------------------
(* Players who come and leave.                                             *)

HandsStay(ps, qs) ==
    SameNames(ps, qs) /\ \A i \in 1..Len(ps) : Hand(qs, i) = Hand(ps, i)

LEMMA HandsStayOwners ==
    ASSUME NEW m, NamedApart(m), NEW r, MatchType(r), HandsStay(m.players, r.players)
    PROVE  /\ NamedApart(r) /\ HandsIn(r) = HandsIn(m)
           /\ GoldIn(r) \in [NamesOf(m) -> Nat]
<1>1. /\ NamedApart(r) /\ NamesOf(r) = NamesOf(m)
      /\ \A i \in 1..Len(m.players) : NameAt(r, i) = NameAt(m, i)
      /\ Len(r.players) = Len(m.players)
  BY SameNamesSeated DEF HandsStay, SameNames
<1>. DEFINE hands == HandsIn(m)
<1>2. hands = [n \in NamesOf(r) |-> hands[n]]
  BY <1>1 DEF HandsIn
<1>3. \A i \in 1..Len(r.players) : hands[NameAt(r, i)] = Hand(r.players, i)
  BY <1>1, OwnersAre DEF HandsStay
<1>. HIDE DEF hands
<1>4. HandsIn(r) = hands
  BY <1>1, <1>2, <1>3, HandsAre
<1>5. ASSUME NEW n \in NamesOf(m) PROVE GoldIn(r)[n] \in Nat
  <2>1. PICK i \in 1..Len(r.players) : n = NameAt(r, i)
    BY <1>1, NameOfIndex
  <2>2. r.players[i] \in PlayerType
    BY ElementOfSeq DEF MatchType
  <2>3. GoldIn(r)[n] = r.players[i].gold
    BY <1>1, <2>1, OwnersAre
  <2>. QED
    BY <2>2, <2>3 DEF PlayerType
<1>6. GoldIn(r) = [n \in NamesOf(m) |-> GoldIn(r)[n]]
  BY <1>1 DEF GoldIn
<1>. QED
  BY <1>1, <1>4, <1>5, <1>6 DEF hands

(* A match that starts has its first dispute, or ends without one.         *)
LEMMA StartOpens ==
    ASSUME NEW m, Sound(m), m.players # <<>>, Undisputed(m),
           m.cardsInAuction = <<>>, NEW r \in Starts(m)
    PROVE  Opened(r) /\ HandsStay(m.players, r.players)
<1>. DEFINE n == [m EXCEPT !.updateEvent = MovedFrom(m.updateEvent)]
<1>1. MatchType(m)
  BY DEF Sound
<1>2. MatchType(n) /\ n.fault = m.fault /\ n.players = m.players
      /\ n.currentPhase = m.currentPhase /\ n.currentOffer = m.currentOffer
      /\ n.cardsInAuction = m.cardsInAuction
      /\ n.currentAttack = m.currentAttack
  <2>1. MovedFrom(m.updateEvent) \in Seq(Update)
    BY <1>1 DEF MatchType, MovedFrom
  <2>. QED
    BY <1>1, <2>1 DEF MatchType
<1>3. PICK a \in DOMAIN m.players, d \in Shuffles(m.deck) :
        r = ProcessPhase(OnGameStartPhase(n, a, d))
  BY DEF Starts
<1>4. d \in Seq(Card)
  BY <1>1, DeckAssumption DEF Shuffles, MatchType
<1>. HIDE DEF n
<1>5. Sound(n) /\ Undisputed(n)
  BY <1>2 DEF Sound, Covered, Undisputed
<1>. DEFINE g == OnGameStartPhase(n, a, d)
            r2 == OnPhase(OnPhase(g))
<1>6. /\ Playing(g) /\ g.currentPhase = "TurnStart"
      /\ SameHands(m.players, g.players) /\ g.cardsInAuction = <<>>
  BY <1>2, <1>4, <1>5, GameStartSound, GameStartResult
<1>7. r = OnPhase(OnPhase(OnPhase(r2)))
  BY <1>3 DEF ProcessPhase
<1>. HIDE DEF g
<1>8. Opened(r2) /\ Unmoved(g.players, r2.players)
  BY <1>6, TurnOpens
<1>. HIDE DEF r2
<1>9. r = r2
  BY <1>7, <1>8, RestingStays DEF Opened
<1>10. HandsStay(m.players, g.players)
  BY <1>6 DEF HandsStay, SameNames, SameHands, SameCards, Hand, Owned
<1>. QED
  BY <1>8, <1>9, <1>10 DEF HandsStay, Unmoved, SameNames

LEMMA NewOwner ==
    ASSUME NEW m, Sound(m), NamedApart(m), NEW n \in Name, n \notin NamesOf(m),
           m.currentPhase \in {"WaitForStart", "Finished"}
    PROVE  LET r == AddPlayer(m, n)
           IN  /\ NamedApart(r) /\ NamesOf(r) = NamesOf(m) \cup {n}
               /\ GoldIn(r) = [p \in NamesOf(m) \cup {n} |->
                                 IF p = n THEN 0 ELSE GoldIn(m)[p]]
               /\ HandsIn(r) = [p \in NamesOf(m) \cup {n} |->
                                  IF p = n THEN {} ELSE HandsIn(m)[p]]
<1>. DEFINE r == AddPlayer(m, n)
            ps == m.players
            gold == [p \in NamesOf(m) \cup {n} |->
                       IF p = n THEN 0 ELSE GoldIn(m)[p]]
            hands == [p \in NamesOf(m) \cup {n} |->
                        IF p = n THEN {} ELSE HandsIn(m)[p]]
<1>1. /\ MatchType(m) /\ ps \in Seq(PlayerType) /\ Len(ps) \in Nat
  BY DEF Sound, MatchType
<1>2. r.players = Append(ps, NewPlayer(n))
  BY <1>1 DEF MatchType, AddPlayer
<1>3. NamesOf(r) = NamesOf(m) \cup {n}
  BY <1>1, AddPlayerNames
<1>4. \A i \in 1..Len(ps) : ps[i].name # n /\ NameAt(m, i) # n
  BY NameOfIndex DEF NameAt
<1>5. NamedApart(r)
  BY <1>1, <1>4, AddPlayerSound, AddPlayerKeeps DEF NamedApart, Sound
<1>. HIDE DEF r, ps
<1>6. /\ Len(r.players) = Len(ps) + 1
      /\ \A i \in 1..Len(ps) : r.players[i] = ps[i]
      /\ r.players[Len(ps) + 1] = NewPlayer(n)
  BY <1>1, <1>2, NewPlayerType, AppendProperties
<1>7. ASSUME NEW i \in 1..Len(r.players)
      PROVE  /\ gold[NameAt(r, i)] = r.players[i].gold
             /\ hands[NameAt(r, i)] = Hand(r.players, i)
  <2>1. CASE i \in 1..Len(ps)
    <3>1. /\ NameAt(r, i) = NameAt(m, i) /\ r.players[i] = ps[i]
          /\ NameAt(m, i) # n /\ NameAt(m, i) \in NamesOf(m)
          /\ GoldIn(m)[NameAt(m, i)] = ps[i].gold
          /\ HandsIn(m)[NameAt(m, i)] = Hand(ps, i)
      BY <1>4, <1>6, <2>1, NameOfIndex, OwnersAre DEF NameAt, ps
    <3>. QED
      BY <3>1 DEF Hand
  <2>2. CASE i = Len(ps) + 1
    <3>1. /\ NameAt(r, i) = n /\ r.players[i].gold = 0
          /\ Hand(r.players, i) = {}
      BY <1>6, <2>2 DEF NameAt, NewPlayer, Hand, Owned
    <3>. QED
      BY <3>1
  <2>. QED
    BY <1>1, <1>6, <2>1, <2>2
<1>8. gold = [p \in NamesOf(r) |-> gold[p]]
      /\ hands = [p \in NamesOf(r) |-> hands[p]]
  BY <1>3
<1>. HIDE DEF gold, hands
<1>9. GoldIn(r) = gold
  BY <1>5, <1>7, <1>8, GoldIs
<1>10. HandsIn(r) = hands
  BY <1>5, <1>7, <1>8, HandsAre
<1>. QED
  BY <1>3, <1>5, <1>9, <1>10 DEF r, gold, hands

LEMMA OwnerLeaves ==
    ASSUME NEW m, Sound(m), NamedApart(m), NEW n, IsPlayer(m, n)
    PROVE  LET r == RemovePlayer(m, n)
           IN  /\ NamedApart(r)
               /\ GoldIn(r) = [p \in NamesOf(m) \ {n} |-> GoldIn(m)[p]]
               /\ HandsIn(r) = [p \in NamesOf(m) \ {n} |-> HandsIn(m)[p]]
<1>. DEFINE k == GetPlayerIndex(m, n)
            ps == m.players
            r == RemovePlayer(m, n)
            From(j) == IF j < k THEN j ELSE j + 1
            gold == [p \in NamesOf(m) \ {n} |-> GoldIn(m)[p]]
            hands == [p \in NamesOf(m) \ {n} |-> HandsIn(m)[p]]
<1>1. MatchType(m) /\ ps \in Seq(PlayerType)
  BY DEF Sound, MatchType
<1>2. k \in 1..Len(ps) /\ NameAt(m, k) = n
  BY <1>1, PlayerIndex
<1>3. r.players = RemoveAt(ps, k)
  BY <1>1 DEF RemovePlayer, MatchType
<1>4. NamedApart(r) /\ NamesOf(r) = NamesOf(m) \ {n}
  BY RemovePlayerSound, RemovePlayerKeeps, RemovePlayerNames DEF NamedApart, Sound
<1>. HIDE DEF r, k, ps
<1>5. \A j \in 1..Len(r.players) :
        From(j) \in 1..Len(ps) /\ r.players[j] = ps[From(j)]
  BY <1>1, <1>2, <1>3, RemovedAt
<1>. HIDE DEF From
<1>6. ASSUME NEW j \in 1..Len(r.players)
      PROVE  /\ gold[NameAt(r, j)] = r.players[j].gold
             /\ hands[NameAt(r, j)] = Hand(r.players, j)
  <2>1. NameAt(r, j) \in NamesOf(m) \ {n}
    BY <1>4, NameOfIndex
  <2>2. /\ NameAt(r, j) = NameAt(m, From(j))
        /\ Hand(r.players, j) = Hand(ps, From(j))
    BY <1>5 DEF NameAt, Hand, ps
  <2>3. /\ GoldIn(m)[NameAt(m, From(j))] = ps[From(j)].gold
        /\ HandsIn(m)[NameAt(m, From(j))] = Hand(ps, From(j))
    BY <1>5, OwnersAre DEF ps
  <2>. QED
    BY <1>5, <2>1, <2>2, <2>3
<1>7. gold = [p \in NamesOf(r) |-> gold[p]]
      /\ hands = [p \in NamesOf(r) |-> hands[p]]
  BY <1>4
<1>. HIDE DEF gold, hands
<1>8. /\ \A j \in 1..Len(r.players) : gold[NameAt(r, j)] = r.players[j].gold
      /\ \A j \in 1..Len(r.players) : hands[NameAt(r, j)] = Hand(r.players, j)
  BY <1>6
<1>9. GoldIn(r) = gold
  <2>1. NamedApart(r) /\ gold = [p \in NamesOf(r) |-> gold[p]]
    BY <1>4, <1>7
  <2>. QED
    BY <1>8, <2>1, GoldIs, Zenon
<1>10. HandsIn(r) = hands
  <2>1. NamedApart(r) /\ hands = [p \in NamesOf(r) |-> hands[p]]
    BY <1>4, <1>7
  <2>. QED
    BY <1>8, <2>1, HandsAre, Zenon
<1>. QED
  BY <1>4, <1>9, <1>10 DEF r, gold, hands

(* The lead is lost with the leader, and only then.                        *)
LEMMA LeaderLeaves ==
    ASSUME NEW m, Sound(m), NamedApart(m), Orderly(m), NEW n, IsPlayer(m, n)
    PROVE  LET r == RemovePlayer(m, n)
           IN  /\ Orderly(r)
               /\ LeaderOf(r) = IF LeaderOf(m) = n THEN NoName ELSE LeaderOf(m)
<1>. DEFINE k == GetPlayerIndex(m, n)
            ps == m.players
            r == RemovePlayer(m, n)
            From(j) == IF j < k THEN j ELSE j + 1
<1>1. MatchType(m) /\ ps \in Seq(PlayerType) /\ DOMAIN ps = 1..Len(ps)
  BY DEF Sound, MatchType
<1>2. k \in 1..Len(ps) /\ NameAt(m, k) = n /\ n \in Name
  BY <1>1, PlayerIndex
<1>3. /\ r.players = RemoveAt(ps, k)
      /\ r.currentPhase = m.currentPhase /\ BidOn(r) = BidOn(m)
      /\ r.cardsInAuction = m.cardsInAuction
  BY <1>1 DEF RemovePlayer, MatchType, BidOn
<1>4. /\ MatchType(r) /\ Distinct(r.players) /\ NamedApart(r)
      /\ DOMAIN r.players = 1..Len(r.players)
  <2>1. Sound(r) /\ Distinct(r.players)
    BY RemovePlayerSound, RemovePlayerKeeps DEF NamedApart
  <2>. HIDE DEF r
  <2>2. MatchType(r)
    BY <2>1 DEF Sound
  <2>. QED
    BY <2>1, <2>2 DEF NamedApart, MatchType
<1>. HIDE DEF r, k, ps
<1>5. \A j \in 1..Len(r.players) :
        /\ From(j) \in 1..Len(ps) /\ From(j) # k
        /\ r.players[j] = ps[From(j)]
  BY <1>1, <1>2, <1>3, RemovedAt
<1>. HIDE DEF From
<1>6. ASSUME NEW j \in WinnerIndices(r)
      PROVE  /\ From(j) \in WinnerIndices(m) /\ From(j) # k
             /\ j \in 1..Len(r.players) /\ r.players[j] = ps[From(j)]
  BY <1>1, <1>4, <1>5 DEF WinnerIndices, ps
<1>7. ASSUME NEW w \in WinnerIndices(m), w # k
      PROVE  WinnerIndices(r) # {}
  <2>1. w \in 1..Len(ps) /\ ps[w].isWinningAuction
    BY <1>1 DEF WinnerIndices, ps
  <2>2. PICK j \in 1..Len(r.players) : r.players[j] = ps[w]
    BY <1>1, <1>2, <1>3, <1>7, <2>1, OthersStay
  <2>. QED
    BY <1>4, <2>1, <2>2 DEF WinnerIndices
<1>8. Orderly(r)
  <2>1. ASSUME NEW i \in WinnerIndices(r), NEW j \in WinnerIndices(r)
        PROVE  i = j
    <3>1. From(i) = From(j)
      BY <1>6 DEF Orderly
    <3>2. r.players[i] = r.players[j]
      BY <1>6, <3>1
    <3>. QED
      BY <1>4, <1>6, <3>2 DEF Distinct
  <2>2. WinnerIndices(r) # {} => BidOn(r) # 0
    BY <1>3, <1>6 DEF Orderly
  <2>. QED
    BY <1>3, <2>1, <2>2 DEF Orderly
<1>9. LeaderOf(r) = IF LeaderOf(m) = n THEN NoName ELSE LeaderOf(m)
  <2>1. CASE WinnerIndices(m) = {}
    <3>1. WinnerIndices(r) = {}
      BY <1>6, <2>1
    <3>. QED
      BY <2>1, <3>1 DEF LeaderOf
  <2>2. CASE WinnerIndices(m) # {}
    <3>. DEFINE w == GetCurrentWinner(m)
    <3>1. w \in WinnerIndices(m) /\ w \in 1..Len(ps)
          /\ LeaderOf(m) = NameAt(m, w) /\ NameAt(m, w) # NoName
      BY <1>1, <2>2, LeaderIs, NameOfIndex, NameAssumption DEF LeaderOf, ps
    <3>2. \A i \in WinnerIndices(m) : i = w
      BY <3>1 DEF Orderly
    <3>. HIDE DEF w
    <3>3. CASE w = k
      <4>1. WinnerIndices(r) = {}
        BY <1>6, <3>2, <3>3
      <4>. QED
        BY <1>2, <3>1, <3>3, <4>1 DEF LeaderOf
    <3>4. CASE w # k
      <4>1. WinnerIndices(r) # {}
        BY <1>7, <3>1, <3>4
      <4>. DEFINE j == GetCurrentWinner(r)
      <4>2. j \in WinnerIndices(r)
        BY <1>4, <4>1, LeaderIs
      <4>. HIDE DEF j
      <4>3. r.players[j] = ps[w]
        BY <1>6, <3>2, <4>2
      <4>4. LeaderOf(r) = NameAt(m, w)
        BY <4>1, <4>3 DEF LeaderOf, NameAt, j, ps
      <4>5. NameAt(m, w) # n
        BY <1>2, <3>1, <3>4, NameOfIndex DEF ps
      <4>. QED
        BY <3>1, <4>4, <4>5
    <3>. QED
      BY <3>3, <3>4
  <2>. QED
    BY <2>1, <2>2
<1>. QED
  BY <1>8, <1>9 DEF r

-----------------------------------------------------------------------------
(* The steps of MatchHandler.                                              *)

Stays(m, r) ==
    /\ r.cardsInAuction = m.cardsInAuction /\ KindOf(r) = KindOf(m)
    /\ BidOf(r) = BidOf(m) /\ LeaderOf(r) = LeaderOf(m)
    /\ GoldIn(r) = GoldIn(m) /\ HandsIn(r) = HandsIn(m)

LEMMA ErrorStays ==
    ASSUME NEW m, MatchType(m), Orderly(m)
    PROVE  Stays(m, SetError(m)) /\ Orderly(SetError(m))
<1>. DEFINE r == SetError(m)
<1>1. /\ r.players = m.players /\ r.currentPhase = m.currentPhase
      /\ r.currentAttack = m.currentAttack /\ r.currentOffer = m.currentOffer
      /\ r.cardsInAuction = m.cardsInAuction
  BY DEF SetError, MatchType
<1>. HIDE DEF r
<1>2. WinnerIndices(r) = WinnerIndices(m) /\ BidOn(r) = BidOn(m)
  BY <1>1 DEF WinnerIndices, BidOn
<1>3. LeaderOf(r) = LeaderOf(m)
  BY <1>1, <1>2 DEF LeaderOf, GetCurrentWinner, NameAt
<1>4. GoldIn(r) = GoldIn(m) /\ HandsIn(r) = HandsIn(m)
  BY <1>1 DEF GoldIn, HandsIn, GoldOf, NamesOf, GetPlayerIndex, NameAt
<1>5. KindOf(r) = KindOf(m) /\ BidOf(r) = BidOf(m)
  BY <1>1 DEF KindOf, BidOf
<1>. QED
  BY <1>1, <1>2, <1>3, <1>4, <1>5 DEF Stays, Orderly, r

LEMMA HandledMoves ==
    ASSUME NEW m, Sound(m), NamedApart(m), Orderly(m), NEW h, Handled(m, h)
    PROVE  Orderly(h) /\ (Stays(m, h) \/ \E n \in Name : MoveTo(m, h, n))
BY ErrorStays, BidMoves DEF Handled, NamedApart

LEMMA JoinEnters ==
    ASSUME NEW m, Sound(m), NamedApart(m), Orderly(m), NEW n \in Name,
           n \notin NamesOf(m), m.currentPhase \in {"WaitForStart", "Finished"},
           NEW r, r \in Starts(AddPlayer(m, n)) \/ r = AddPlayer(m, n)
    PROVE  Orderly(r) /\ EnterTo(m, r, n)
<1>. DEFINE joined == AddPlayer(m, n)
<1>1. /\ Sound(joined) /\ Undisputed(joined) /\ joined.players # <<>>
  BY AddPlayerSound
<1>2. MatchType(m) /\ Undisputed(m)
  BY DEF Sound
<1>3. /\ joined.cardsInAuction = m.cardsInAuction
      /\ joined.currentPhase = m.currentPhase
  BY <1>2 DEF AddPlayer, MatchType
<1>4. /\ NamedApart(joined) /\ NamesOf(joined) = NamesOf(m) \cup {n}
      /\ GoldIn(joined) = [p \in NamesOf(m) \cup {n} |->
                             IF p = n THEN 0 ELSE GoldIn(m)[p]]
      /\ HandsIn(joined) = [p \in NamesOf(m) \cup {n} |->
                              IF p = n THEN {} ELSE HandsIn(m)[p]]
  BY NewOwner
<1>5. DOMAIN GoldIn(m) = NamesOf(m) /\ KindOf(m) = "none"
      /\ m.cardsInAuction = <<>>
  BY OwnersAre DEF KindOf, Orderly
<1>. HIDE DEF joined
<1>6. ASSUME NEW q, MatchType(q), Undisputed(q) PROVE WinnerIndices(q) = {}
  <2>1. DOMAIN q.players = 1..Len(q.players)
    BY <1>6 DEF MatchType
  <2>. QED
    BY <1>6, <2>1 DEF WinnerIndices, Undisputed, AllReset
<1>7. CASE r = joined
  <2>1. WinnerIndices(m) = {} /\ WinnerIndices(r) = {}
    BY <1>1, <1>2, <1>6, <1>7 DEF Sound
  <2>2. /\ KindOf(r) = KindOf(m) /\ BidOf(r) = BidOf(m)
        /\ LeaderOf(r) = LeaderOf(m)
    BY <1>3, <1>7, <2>1 DEF KindOf, BidOf, LeaderOf
  <2>3. Orderly(r)
    BY <1>3, <1>5, <1>7, <2>1 DEF Orderly
  <2>. QED
    BY <1>3, <1>4, <1>5, <1>7, <2>2, <2>3 DEF EnterTo
<1>8. CASE r \in Starts(joined)
  <2>1. Opened(r) /\ HandsStay(joined.players, r.players)
    BY <1>1, <1>3, <1>5, <1>8, StartOpens
  <2>2. MatchType(r) /\ OpensTo(r) /\ Orderly(r)
    BY <2>1, OpenedOpens DEF Opened, Playing, Sound
  <2>3. /\ HandsIn(r) = HandsIn(joined)
        /\ GoldIn(r) \in [NamesOf(m) \cup {n} -> Nat]
    BY <1>4, <2>1, <2>2, HandsStayOwners
  <2>. QED
    BY <1>4, <1>5, <2>2, <2>3 DEF EnterTo
<1>. QED
  BY <1>7, <1>8 DEF joined

LEMMA LeaveExits ==
    ASSUME NEW m, Sound(m), NamedApart(m), Orderly(m), NEW n, n \in NamesOf(m)
    PROVE  LET r == RemovePlayer(m, n) IN Orderly(r) /\ ExitTo(m, r, n)
<1>. DEFINE r == RemovePlayer(m, n)
<1>1. IsPlayer(m, n) /\ MatchType(m)
  BY DEF NamesOf, IsPlayer, NamedApart
<1>2. /\ r.cardsInAuction = m.cardsInAuction
      /\ r.currentPhase = m.currentPhase
      /\ r.currentAttack = m.currentAttack /\ r.currentOffer = m.currentOffer
  BY <1>1 DEF RemovePlayer, MatchType
<1>3. /\ GoldIn(r) = [p \in NamesOf(m) \ {n} |-> GoldIn(m)[p]]
      /\ HandsIn(r) = [p \in NamesOf(m) \ {n} |-> HandsIn(m)[p]]
  BY <1>1, OwnerLeaves
<1>4. /\ Orderly(r)
      /\ LeaderOf(r) = IF LeaderOf(m) = n THEN NoName ELSE LeaderOf(m)
  BY <1>1, LeaderLeaves
<1>5. DOMAIN GoldIn(m) = NamesOf(m)
  BY OwnersAre
<1>. HIDE DEF r
<1>6. KindOf(r) = KindOf(m) /\ BidOf(r) = BidOf(m)
  BY <1>2 DEF KindOf, BidOf
<1>7. ExitTo(m, r, n)
  BY <1>2, <1>3, <1>4, <1>5, <1>6 DEF ExitTo
<1>. QED
  BY <1>4, <1>7 DEF r

LEMMA StepIsOne ==
    ASSUME Dealt, Orderly(match), [Next]_vars
    PROVE  /\ Orderly(match')
           /\ \/ Stays(match, match')
              \/ \E n \in Name : \/ MoveTo(match, match', n)
                                 \/ EnterTo(match, match', n)
                                 \/ ExitTo(match, match', n)
<1>. DEFINE Good == /\ Orderly(match')
                    /\ \/ Stays(match, match')
                       \/ \E n \in Name : \/ MoveTo(match, match', n)
                                          \/ EnterTo(match, match', n)
                                          \/ ExitTo(match, match', n)
<1>1. Sound(match) /\ NamedApart(match)
  BY DEF Dealt, NamedApart, Sound
<1>2. ASSUME NEW n \in Name, Join(n) PROVE Good
  <2>1. /\ match.currentPhase \in {"WaitForStart", "Finished"}
        /\ n \notin NamesOf(match)
        /\ match' \in Starts(AddPlayer(match, n)) \/ match' = AddPlayer(match, n)
    BY <1>2 DEF Join, IsRunning, Names
  <2>. QED
    BY <1>1, <2>1, JoinEnters
<1>3. ASSUME NEW n \in Name, Leave(n) PROVE Good
  BY <1>1, <1>3, LeaveExits DEF Leave, Names
<1>4. ASSUME NEW n \in Name, Input(n) PROVE Good
  <2>1. Handled(match, match')
    BY <1>1, <1>4, HandleAttackHandled, HandleOfferHandled, HandlePassHandled,
       OfferAssumption
       DEF Input, Attack, Offer, Pass, Names, NamesOf, IsPlayer
  <2>. QED
    BY <1>1, <2>1, HandledMoves
<1>5. ASSUME UNCHANGED vars PROVE Good
  BY <1>5 DEF vars, Stays
<1>. HIDE DEF Good
<1>6. Good
  BY <1>2, <1>3, <1>4, <1>5 DEF Next
<1>. QED
  BY <1>6 DEF Good

LEMMA InitIsInit == Init => Dispute!Init /\ Orderly(match)
<1>. SUFFICES ASSUME Init PROVE Dispute!Init /\ Orderly(match)
  OBVIOUS
<1>1. /\ match.players = <<>> /\ match.cardsInAuction = <<>>
      /\ match.currentPhase = "WaitForStart"
  BY DEF Init, NewMatch
<1>2. WinnerIndices(match) = {} /\ NamesOf(match) = {}
  BY <1>1 DEF WinnerIndices, NamesOf
<1>3. /\ KindOf(match) = "none" /\ BidOf(match) = 0
      /\ LeaderOf(match) = NoName
  BY <1>1, <1>2 DEF KindOf, BidOf, LeaderOf
<1>4. GoldIn(match) = [n \in {} |-> 0] /\ HandsIn(match) = [n \in {} |-> {}]
  BY <1>2 DEF GoldIn, HandsIn
<1>. QED
  BY <1>1, <1>2, <1>3, <1>4 DEF Dispute!Init, Orderly

(* The rules of the game, for any number of players who come and go: a     *)
(* card goes to whoever leads the dispute for it, who pays the offer, and  *)
(* no gold and no card changes hands otherwise until the match is over.    *)
THEOREM CardsGoToTheLeader == Spec => SoldToTheLeader
<1>1. Spec => [](Dealt /\ Orderly(match))
  <2>1. Dealt /\ Orderly(match) /\ [Next]_vars => Orderly(match)'
    <3>1. SUFFICES ASSUME Dealt, Orderly(match), [Next]_vars
                   PROVE  Orderly(match)'
      OBVIOUS
    <3>2. Orderly(match')
      BY <3>1, StepIsOne
    <3>. QED
      BY <3>2 DEF Orderly, WinnerIndices, BidOn
  <2>. QED
    BY <2>1, DealtInvariant, InitIsInit, PTL DEF Spec
<1>2. Dealt /\ Orderly(match) /\ [Next]_vars
        => [Dispute!Next]_(Dispute!vars)
  <2>1. SUFFICES ASSUME Dealt, Orderly(match), [Next]_vars
                 PROVE  [Dispute!Next]_(Dispute!vars)
    OBVIOUS
  <2>2. CASE Stays(match, match')
    BY <2>2, ViewsAre DEF Stays, Dispute!vars
  <2>3. ASSUME NEW n \in Name,
               \/ MoveTo(match, match', n) \/ EnterTo(match, match', n)
               \/ ExitTo(match, match', n)
        PROVE  Dispute!Next
    BY <2>3, MoveIs, EnterIs, ExitIs DEF Dispute!Next
  <2>. QED
    BY <2>1, <2>2, <2>3, StepIsOne
<1>. QED
  BY <1>1, <1>2, InitIsInit, PTL DEF Spec, SoldToTheLeader, Dispute!Spec
=============================================================================
