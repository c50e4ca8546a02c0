--------------------------- MODULE Clients_proofs ---------------------------
(***************************************************************************)
(* Theorems about Clients: what the web clients know of their matches, for *)
(* any number of clients, matches and cards, who come and go.              *)
(***************************************************************************)
EXTENDS Clients, ServerManager_proofs

-----------------------------------------------------------------------------
(* A client, and what it makes of a list of events.                        *)

Nick == Name \cup {NoName}

Shown == [gold : Int, cards : Seq(Card)]

Client ==
    [ players : UNION {[D -> Shown] : D \in SUBSET Nick}, deck : SUBSET Card,
      inPlay : Seq(Card), auctioneer : Nick, thrown : BOOLEAN ]

(* The events a client is sent.                                            *)
Info == [type : {"MatchInfo"}, players : Seq(Name), deck : Seq(Card)]

Told == Update \cup Info

Reader == [x \in Client \X Told |-> DispatchEvent(x[1], x[2])]

LEMMA ClientIs ==
    ASSUME NEW c
    PROVE  c \in Client <=>
             /\ c = [players |-> c.players, deck |-> c.deck, inPlay |-> c.inPlay,
                     auctioneer |-> c.auctioneer, thrown |-> c.thrown]
             /\ DOMAIN c.players \subseteq Nick
             /\ c.players \in [DOMAIN c.players -> Shown]
             /\ c.deck \subseteq Card /\ c.inPlay \in Seq(Card)
             /\ c.auctioneer \in Nick /\ c.thrown \in BOOLEAN
  BY DEF Client

(* The parts of a client are its own.                                      *)
LEMMA Parts ==
    ASSUME NEW c \in Client
    PROVE  /\ DOMAIN c.players \subseteq Nick
           /\ \A n \in DOMAIN c.players : c.players[n] \in Shown
           /\ c.deck \subseteq Card /\ c.inPlay \in Seq(Card)
           /\ c.auctioneer \in Nick /\ c.thrown \in BOOLEAN
  BY DEF Client

LEMMA ThrowsType ==
    ASSUME NEW c \in Client
    PROVE  Throws(c) \in Client
  BY DEF Client, Throws

(* One player of the client is shown as p.                                 *)
Shows(c, n, p) == [c EXCEPT !.players[n] = p]

LEMMA ShowsType ==
    ASSUME NEW c \in Client, NEW n \in DOMAIN c.players, NEW p \in Shown
    PROVE  /\ Shows(c, n, p) \in Client
           /\ DOMAIN Shows(c, n, p).players = DOMAIN c.players
           /\ \A k \in DOMAIN c.players :
                Shows(c, n, p).players[k] = IF k = n THEN p ELSE c.players[k]
           /\ Shows(c, n, p).deck = c.deck /\ Shows(c, n, p).inPlay = c.inPlay
           /\ Shows(c, n, p).auctioneer = c.auctioneer
           /\ Shows(c, n, p).thrown = c.thrown
<1>. DEFINE ps == [c.players EXCEPT ![n] = p]
            r  == [c EXCEPT !.players = ps]
<1>1. c = [players |-> c.players, deck |-> c.deck, inPlay |-> c.inPlay,
           auctioneer |-> c.auctioneer, thrown |-> c.thrown]
      /\ c.players \in [DOMAIN c.players -> Shown]
  BY ClientIs
<1>2. /\ ps \in [DOMAIN c.players -> Shown]
      /\ \A k \in DOMAIN c.players : ps[k] = IF k = n THEN p ELSE c.players[k]
  BY <1>1
<1>3. Shows(c, n, p) = r
  BY <1>1 DEF Shows
<1>. HIDE DEF ps
<1>4. r \in Client
  BY <1>1, <1>2, ClientIs
<1>5. r.players = ps /\ r.deck = c.deck /\ r.inPlay = c.inPlay
      /\ r.auctioneer = c.auctioneer /\ r.thrown = c.thrown
  BY <1>1
<1>. HIDE DEF r
<1>. QED
  BY <1>2, <1>3, <1>4, <1>5

(* What becomes of one player's gold.                                      *)
LEMMA GoldShown ==
    ASSUME NEW c \in Client, NEW n \in DOMAIN c.players, NEW v \in Int
    PROVE  /\ OnEarn(c, n, v) =
                Shows(c, n, [c.players[n] EXCEPT !.gold = c.players[n].gold + v])
           /\ OnPay(c, n, v) =
                Shows(c, n, [c.players[n] EXCEPT !.gold = c.players[n].gold - v])
           /\ OnSetGold(c, n, v) = Shows(c, n, [c.players[n] EXCEPT !.gold = v])
<1>1. c = [players |-> c.players, deck |-> c.deck, inPlay |-> c.inPlay,
           auctioneer |-> c.auctioneer, thrown |-> c.thrown]
      /\ c.players \in [DOMAIN c.players -> Shown] /\ c.players[n] \in Shown
  BY ClientIs
<1>. QED
  BY <1>1 DEF OnEarn, OnPay, OnSetGold, Changes, Shows, Shown

(* The first card in play goes to a player.                                *)
LEMMA CardShown ==
    ASSUME NEW c \in Client, NEW n \in DOMAIN c.players, c.inPlay # <<>>
    PROVE  OnGetCard(c, n) =
              [Shows(c, n, [c.players[n] EXCEPT
                              !.cards = Append(c.players[n].cards, Head(c.inPlay))])
                 EXCEPT !.inPlay = Tail(c.inPlay)]
<1>1. c = [players |-> c.players, deck |-> c.deck, inPlay |-> c.inPlay,
           auctioneer |-> c.auctioneer, thrown |-> c.thrown]
      /\ c.players \in [DOMAIN c.players -> Shown] /\ c.players[n] \in Shown
  BY ClientIs
<1>. QED
  BY <1>1 DEF OnGetCard, Changes, Shows, Shown

-----------------------------------------------------------------------------
(* What a client makes of one event.                                       *)

LEMMA Dispatched ==
    ASSUME NEW c, ~c.thrown, NEW e
    PROVE  /\ e.type = "Draw" => DispatchEvent(c, e) = OnDraw(c, e.value)
           /\ e.type = "MatchInfo" => DispatchEvent(c, e) = OnMatchInfo(e)
           /\ e.type = "GetCard" => DispatchEvent(c, e) = OnGetCard(c, e.nickname)
           /\ e.type = "Pay" => DispatchEvent(c, e) = OnPay(c, e.nickname, e.value)
           /\ e.type = "Earn" => DispatchEvent(c, e) = OnEarn(c, e.nickname, e.value)
           /\ e.type = "JoinMatchResult"
                => DispatchEvent(c, e) = OnJoinMatch(c, e.nickname)
           /\ e.type = "Attack" => DispatchEvent(c, e) = OnAttack(c, e.nickname)
           /\ e.type \in {"Pass", "Offer"}
                => DispatchEvent(c, e) = OnPass(c, e.nickname)
           /\ e.type = "IsAuctioneer"
                => DispatchEvent(c, e) = OnIsAuctioneer(c, e.nickname)
           /\ e.type = "SetGold"
                => DispatchEvent(c, e) = OnSetGold(c, e.nickname, e.value)
           /\ e.type \in {"Error", "Winner", "Leave"} => DispatchEvent(c, e) = c
  BY DEF DispatchEvent

LEMMA DispatchThrown ==
    ASSUME NEW c, c.thrown, NEW e
    PROVE  DispatchEvent(c, e) = c
  BY DEF DispatchEvent

(* All of a client but gold and auctioneer.                                *)
Kept(c, d) ==
    /\ d.deck = c.deck /\ d.inPlay = c.inPlay /\ d.thrown = c.thrown
    /\ DOMAIN d.players = DOMAIN c.players
    /\ \A n \in DOMAIN c.players : d.players[n].cards = c.players[n].cards

SameGoldShown(c, d) ==
    \A n \in DOMAIN c.players : d.players[n].gold = c.players[n].gold

(* The event is about the gold of a player of the client, now gold.        *)
TellsGold(c, e, gold) ==
    /\ e.nickname \in DOMAIN c.players
    /\ \/ e.type = "SetGold" /\ gold = e.value
       \/ e.type = "Earn" /\ gold = c.players[e.nickname].gold + e.value
       \/ e.type = "Pay" /\ gold = c.players[e.nickname].gold - e.value

LEMMA GoldMoves ==
    ASSUME NEW c, NEW e, NEW gold, TellsGold(c, e, gold),
           c \in Client, ~c.thrown, e \in Update
    PROVE  LET d == DispatchEvent(c, e)
           IN  /\ d \in Client /\ Kept(c, d) /\ d.auctioneer = c.auctioneer
               /\ \A k \in DOMAIN c.players : d.players[k].gold =
                    IF k = e.nickname THEN gold ELSE c.players[k].gold
<1>. DEFINE n == e.nickname
            p == [c.players[n] EXCEPT !.gold = gold]
            d == DispatchEvent(c, e)
<1>1. e.value \in Int /\ c.players[n] \in Shown
  BY Parts DEF Update, TellsGold
<1>2. gold \in Int /\ n \in DOMAIN c.players
  BY <1>1 DEF Shown, TellsGold
<1>3. p \in Shown /\ p.gold = gold /\ p.cards = c.players[n].cards
  BY <1>1, <1>2 DEF Shown
<1>4. d = Shows(c, n, p)
  <2>1. /\ OnEarn(c, n, e.value) =
             Shows(c, n, [c.players[n] EXCEPT !.gold = c.players[n].gold + e.value])
        /\ OnPay(c, n, e.value) =
             Shows(c, n, [c.players[n] EXCEPT !.gold = c.players[n].gold - e.value])
        /\ OnSetGold(c, n, e.value) =
             Shows(c, n, [c.players[n] EXCEPT !.gold = e.value])
    BY <1>1, <1>2, GoldShown, Zenon
  <2>2. CASE e.type = "SetGold" /\ gold = e.value
    <3>1. d = OnSetGold(c, n, e.value)
      BY <2>2, Dispatched, Zenon
    <3>. QED
      BY <2>1, <2>2, <3>1, Zenon
  <2>3. CASE e.type = "Earn" /\ gold = c.players[n].gold + e.value
    <3>1. d = OnEarn(c, n, e.value)
      BY <2>3, Dispatched, Zenon
    <3>. QED
      BY <2>1, <2>3, <3>1, Zenon
  <2>4. CASE e.type = "Pay" /\ gold = c.players[n].gold - e.value
    <3>1. d = OnPay(c, n, e.value)
      BY <2>4, Dispatched, Zenon
    <3>. QED
      BY <2>1, <2>4, <3>1, Zenon
  <2>. QED
    BY <2>2, <2>3, <2>4 DEF TellsGold
<1>. HIDE DEF d, p, n
<1>5. n \in DOMAIN c.players
  BY <1>2 DEF n
<1>6. /\ d \in Client
      /\ DOMAIN d.players = DOMAIN c.players
      /\ \A k \in DOMAIN c.players :
           d.players[k] = IF k = n THEN p ELSE c.players[k]
      /\ d.deck = c.deck /\ d.inPlay = c.inPlay
      /\ d.auctioneer = c.auctioneer /\ d.thrown = c.thrown
  BY <1>3, <1>4, <1>5, ShowsType
<1>. QED
  BY <1>3, <1>6 DEF Kept, d, n

(* The first card in play goes to the player.                              *)
LEMMA CardMoves ==
    ASSUME NEW c \in Client, ~c.thrown, c.inPlay # <<>>, NEW e,
           e.type = "GetCard", e.nickname \in DOMAIN c.players
    PROVE  LET d == DispatchEvent(c, e)
           IN  /\ d \in Client /\ d.deck = c.deck /\ d.auctioneer = c.auctioneer
               /\ ~d.thrown /\ d.inPlay = Tail(c.inPlay)
               /\ DOMAIN d.players = DOMAIN c.players /\ SameGoldShown(c, d)
               /\ \A k \in DOMAIN c.players : d.players[k].cards =
                    IF k = e.nickname
                    THEN Append(c.players[k].cards, Head(c.inPlay))
                    ELSE c.players[k].cards
<1>. DEFINE n == e.nickname
            got == Append(c.players[n].cards, Head(c.inPlay))
            p == [c.players[n] EXCEPT !.cards = got]
            s == Shows(c, n, p)
            r == [s EXCEPT !.inPlay = Tail(c.inPlay)]
            d == DispatchEvent(c, e)
<1>1. c.players[n] \in Shown /\ c.inPlay \in Seq(Card) /\ n \in DOMAIN c.players
  BY Parts
<1>2. Head(c.inPlay) \in Card /\ Tail(c.inPlay) \in Seq(Card)
  BY <1>1
<1>3. got \in Seq(Card)
  BY <1>1, <1>2 DEF Shown
<1>4. p \in Shown /\ p.gold = c.players[n].gold /\ p.cards = got
  <2>. HIDE DEF got
  <2>. QED
    BY <1>1, <1>3 DEF Shown
<1>5. d = r
  <2>1. d = OnGetCard(c, n)
    BY Dispatched, Zenon
  <2>2. OnGetCard(c, n) = r
    BY <1>1, CardShown, Zenon
  <2>. QED
    BY <2>1, <2>2, Zenon
<1>. HIDE DEF d, p, n
<1>6. /\ s \in Client
      /\ DOMAIN s.players = DOMAIN c.players
      /\ \A k \in DOMAIN c.players :
           s.players[k] = IF k = n THEN p ELSE c.players[k]
      /\ s.deck = c.deck
      /\ s.auctioneer = c.auctioneer /\ s.thrown = c.thrown
  BY <1>1, <1>4, ShowsType
<1>. HIDE DEF s
<1>7. r \in Client /\ r.players = s.players /\ r.deck = s.deck
      /\ r.auctioneer = s.auctioneer /\ r.thrown = s.thrown
      /\ r.inPlay = Tail(c.inPlay)
  BY <1>2, <1>6 DEF Client
<1>. HIDE DEF r, got
<1>8. \A k \in DOMAIN c.players :
        d.players[k] = IF k = n THEN p ELSE c.players[k]
  BY <1>5, <1>6, <1>7
<1>9. SameGoldShown(c, d)
  BY <1>4, <1>8 DEF SameGoldShown
<1>10. \A k \in DOMAIN c.players : d.players[k].cards =
         IF k = n THEN Append(c.players[k].cards, Head(c.inPlay))
                  ELSE c.players[k].cards
  BY <1>4, <1>8 DEF got
<1>. QED
  BY <1>5, <1>6, <1>7, <1>9, <1>10 DEF d, n

LEMMA DrawMoves ==
    ASSUME NEW c \in Client, ~c.thrown, NEW e, e.type = "Draw",
           e.value \in c.deck
    PROVE  LET d == DispatchEvent(c, e)
           IN  /\ d \in Client /\ d.deck = c.deck /\ d.auctioneer = c.auctioneer
               /\ ~d.thrown /\ d.players = c.players
               /\ d.inPlay = Append(c.inPlay, e.value)
<1>1. DispatchEvent(c, e) = [c EXCEPT !.inPlay = Append(c.inPlay, e.value)]
  BY Dispatched DEF OnDraw, Client
<1>2. Append(c.inPlay, e.value) \in Seq(Card)
  BY Parts
<1>. QED
  BY <1>1, <1>2 DEF Client

LEMMA AuctioneerMoves ==
    ASSUME NEW c \in Client, ~c.thrown, NEW e, e.type = "IsAuctioneer",
           e.nickname \in DOMAIN c.players
    PROVE  LET d == DispatchEvent(c, e)
           IN  /\ d \in Client /\ Kept(c, d) /\ SameGoldShown(c, d)
               /\ d.auctioneer = e.nickname
<1>1. DispatchEvent(c, e) = [c EXCEPT !.auctioneer = e.nickname]
  BY Dispatched DEF OnIsAuctioneer
<1>2. e.nickname \in Nick
  BY Parts
<1>. QED
  BY <1>1, <1>2 DEF Client, Kept, SameGoldShown

LEMMA NothingShown ==
    ASSUME NEW c \in Client, ~c.thrown, NEW e,
           \/ e.type \in {"Error", "Winner", "Leave"}
           \/ /\ e.type \in {"Pass", "Offer"} /\ e.nickname \in DOMAIN c.players
           \/ /\ e.type = "Attack" /\ e.nickname \in DOMAIN c.players
              /\ c.players[e.nickname].cards # <<>>
    PROVE  DispatchEvent(c, e) = c
<1>1. CASE e.type \in {"Error", "Winner", "Leave"}
  BY <1>1, Dispatched, Zenon
<1>2. CASE e.type \in {"Pass", "Offer"} /\ e.nickname \in DOMAIN c.players
  <2>1. DispatchEvent(c, e) = OnPass(c, e.nickname)
    BY <1>2, Dispatched, Zenon
  <2>. QED
    BY <1>2, <2>1 DEF OnPass
<1>3. CASE /\ e.type = "Attack" /\ e.nickname \in DOMAIN c.players
           /\ c.players[e.nickname].cards # <<>>
  <2>1. DispatchEvent(c, e) = OnAttack(c, e.nickname)
    BY <1>3, Dispatched, Zenon
  <2>. QED
    BY <1>3, <2>1 DEF OnAttack
<1>. QED
  BY <1>1, <1>2, <1>3

(* Another player comes.                                                   *)
LEMMA PlayerMoves ==
    ASSUME NEW c \in Client, ~c.thrown, NEW e, e.type = "JoinMatchResult",
           e.nickname \in Nick
    PROVE  LET d == DispatchEvent(c, e)
           IN  /\ d \in Client /\ d.deck = c.deck /\ d.auctioneer = c.auctioneer
               /\ ~d.thrown /\ d.inPlay = c.inPlay
               /\ DOMAIN d.players = DOMAIN c.players \cup {e.nickname}
               /\ d.players[e.nickname].cards = <<>>
               /\ \A k \in DOMAIN c.players : k # e.nickname =>
                    d.players[k] = c.players[k]
<1>. DEFINE n == e.nickname
            ps == [k \in DOMAIN c.players \cup {n} |->
                     IF k = n THEN ClientPlayer ELSE c.players[k]]
<1>1. DispatchEvent(c, e) = [c EXCEPT !.players = ps]
  BY Dispatched DEF OnJoinMatch
<1>2. ClientPlayer \in Shown /\ ClientPlayer.cards = <<>>
  BY DEF ClientPlayer, Shown
<1>3. DOMAIN c.players \cup {n} \subseteq Nick
  BY Parts
<1>4. ps \in [DOMAIN c.players \cup {n} -> Shown]
  BY <1>2, Parts
<1>5. DOMAIN ps = DOMAIN c.players \cup {n} /\ ps[n].cards = <<>>
      /\ \A k \in DOMAIN c.players : k # n => ps[k] = c.players[k]
  BY <1>2
<1>. HIDE DEF ps
<1>6. [c EXCEPT !.players = ps] \in Client
  BY <1>3, <1>4 DEF Client
<1>. QED
  BY <1>1, <1>5, <1>6 DEF Client

(* A client that joins a match knows its players and its deck.             *)
LEMMA InfoMoves ==
    ASSUME NEW c \in Client, ~c.thrown, NEW e \in Info
    PROVE  LET d == DispatchEvent(c, e)
           IN  /\ d \in Client /\ d.deck = ToSet(e.deck) /\ ~d.thrown
               /\ d.inPlay = <<>> /\ DOMAIN d.players = ToSet(e.players)
               /\ \A k \in DOMAIN d.players : d.players[k].cards = <<>>
<1>. DEFINE ps == [n \in ToSet(e.players) |-> ClientPlayer]
<1>1. e.type = "MatchInfo" /\ e.players \in Seq(Name) /\ e.deck \in Seq(Card)
  BY DEF Info
<1>2. DispatchEvent(c, e) = ClientMatch(ps, ToSet(e.deck))
  BY <1>1, Dispatched DEF OnMatchInfo
<1>3. ToSet(e.players) \subseteq Nick /\ ToSet(e.deck) \subseteq Card
  BY <1>1, InPile DEF Nick
<1>4. ClientPlayer \in Shown /\ ClientPlayer.cards = <<>>
  BY DEF ClientPlayer, Shown
<1>5. /\ ps \in [ToSet(e.players) -> Shown] /\ DOMAIN ps = ToSet(e.players)
      /\ \A k \in DOMAIN ps : ps[k].cards = <<>>
  BY <1>4
<1>. HIDE DEF ps
<1>6. ClientMatch(ps, ToSet(e.deck)) \in Client
  BY <1>3, <1>5 DEF ClientMatch, Client, Nick
<1>. QED
  BY <1>2, <1>5, <1>6 DEF ClientMatch

(* Whatever it is told, a client stays a client.                           *)
LEMMA DispatchType ==
    ASSUME NEW c \in Client, NEW e \in Told
    PROVE  DispatchEvent(c, e) \in Client
<1>. DEFINE d == DispatchEvent(c, e)
            n == e.nickname
<1>1. CASE c.thrown
  BY <1>1, DispatchThrown
<1>2. CASE ~c.thrown /\ e \in Info
  BY <1>2, InfoMoves
<1>3. CASE ~c.thrown /\ e \in Update
  <2>0. e.type \in EventType /\ n \in Nick
    BY <1>3 DEF Update, Nick
  <2>1. CASE n \in DOMAIN c.players /\ e.type \in {"SetGold", "Earn", "Pay"}
    <3>1. \E gold : TellsGold(c, e, gold)
      BY <2>1 DEF TellsGold
    <3>. QED
      BY <1>3, <2>1, <3>1, GoldMoves
  <2>2. CASE n \notin DOMAIN c.players /\ e.type \in {"SetGold", "Earn", "Pay"}
    <3>1. d \in {OnSetGold(c, n, e.value), OnEarn(c, n, e.value), OnPay(c, n, e.value)}
      BY <1>3, <2>2, Dispatched, Zenon
    <3>2. /\ OnSetGold(c, n, e.value) = Throws(c)
          /\ OnEarn(c, n, e.value) = Throws(c)
          /\ OnPay(c, n, e.value) = Throws(c)
      BY <2>2, Zenon DEF OnSetGold, OnEarn, OnPay, Changes
    <3>. QED
      BY <3>1, <3>2, ThrowsType
  <2>3. CASE e.type = "GetCard"
    <3>1. d = OnGetCard(c, n)
      BY <1>3, <2>3, Dispatched, Zenon
    <3>2. CASE c.inPlay = <<>>
      BY <3>1, <3>2, ThrowsType DEF OnGetCard
    <3>3. CASE c.inPlay # <<>> /\ n \in DOMAIN c.players
      BY <1>3, <2>3, <3>3, CardMoves
    <3>4. CASE c.inPlay # <<>> /\ n \notin DOMAIN c.players
      <4>1. d = [Throws(c) EXCEPT !.inPlay = Tail(Throws(c).inPlay)]
        <5>1. d = [Throws(c) EXCEPT !.inPlay = Tail(@)]
          BY <3>1, <3>4, Zenon DEF OnGetCard, Changes
        <5>. QED
          BY <5>1
      <4>2. Throws(c) \in Client /\ Throws(c).inPlay = c.inPlay
        BY ThrowsType DEF Client, Throws
      <4>3. Tail(c.inPlay) \in Seq(Card)
        BY <3>4, Parts
      <4>. QED
        BY <4>1, <4>2, <4>3 DEF Client
    <3>. QED
      BY <3>2, <3>3, <3>4
  <2>4. CASE e.type = "Draw"
    <3>1. CASE e.value \in c.deck
      BY <1>3, <2>4, <3>1, DrawMoves
    <3>2. CASE e.value \notin c.deck
      <4>1. d = OnDraw(c, e.value)
        BY <1>3, <2>4, Dispatched, Zenon
      <4>. QED
        BY <3>2, <4>1, ThrowsType DEF OnDraw
    <3>. QED
      BY <3>1, <3>2
  <2>5. CASE e.type = "IsAuctioneer"
    <3>1. CASE n \in DOMAIN c.players
      BY <1>3, <2>5, <3>1, AuctioneerMoves
    <3>2. CASE n \notin DOMAIN c.players
      <4>1. d = OnIsAuctioneer(c, n)
        BY <1>3, <2>5, Dispatched, Zenon
      <4>. QED
        BY <3>2, <4>1, ThrowsType DEF OnIsAuctioneer
    <3>. QED
      BY <3>1, <3>2
  <2>6. CASE e.type = "JoinMatchResult"
    BY <1>3, <2>0, <2>6, PlayerMoves
  <2>7. CASE e.type \in {"Pass", "Offer"}
    <3>1. d = OnPass(c, n)
      BY <1>3, <2>7, Dispatched, Zenon
    <3>. QED
      BY <3>1, ThrowsType DEF OnPass
  <2>8. CASE e.type = "Attack"
    <3>1. d = OnAttack(c, n)
      BY <1>3, <2>8, Dispatched, Zenon
    <3>. QED
      BY <3>1, ThrowsType DEF OnAttack
  <2>9. CASE e.type \in {"Error", "Winner", "Leave"}
    <3>1. d = c
      BY <1>3, <2>9, Dispatched, Zenon
    <3>. QED
      BY <3>1
  <2>. QED
    BY <2>0, <2>1, <2>2, <2>3, <2>4, <2>5, <2>6, <2>7, <2>8, <2>9 DEF EventType
<1>. QED
  BY <1>1, <1>2, <1>3 DEF Told

-----------------------------------------------------------------------------
(* What a client makes of a list of events.                                *)

Reads(c, es) == Folded(Reader, c, es)

LEMMA ReaderType == Reader \in [Client \X Told -> Client]
<1>1. ASSUME NEW x \in Client \X Told PROVE DispatchEvent(x[1], x[2]) \in Client
  BY DispatchType
<1>. QED
  BY <1>1 DEF Reader

LEMMA ReaderAt ==
    ASSUME NEW c \in Client, NEW e \in Told
    PROVE  Reader[<< c, e >>] = DispatchEvent(c, e)
  BY DEF Reader

LEMMA ReaderIsFold ==
    ASSUME NEW es \in Seq(Told), NEW c \in Client
    PROVE  FoldLeft(DispatchEvent, c, es) = Reads(c, es)
<1>. DEFINE len == Len(es)
            Rec(it) == it = [s \in SUBSET (1..len) |->
                          IF s = {} THEN c
                          ELSE DispatchEvent(it[s \ {Max(s)}], es[Max(s)])]
            iter == CHOOSE it : Rec(it)
<1>1. DOMAIN es = 1..len /\ len \in Nat /\ \A i \in 1..len : es[i] \in Told
  OBVIOUS
<1>2. FoldLeft(DispatchEvent, c, es) = iter[1..len]
  BY <1>1 DEF FoldLeft, MapThenFoldSet
<1>3. Reader \in [Client \X Told -> Client]
  BY ReaderType
<1>4. \A x \in Client, e \in Told : Reader[<< x, e >>] = DispatchEvent(x, e)
  BY ReaderAt
<1>5. PICK g \in [SUBSET (1..len) -> Client] : FoldsTo(g, len, Reader, c, es)
  BY <1>3, FoldExists
<1>6. \A s \in SUBSET (1..len) : s # {} =>
        /\ Max(s) \in 1..len /\ es[Max(s)] \in Told
        /\ s \ {Max(s)} \in SUBSET (1..len)
  BY <1>1, MaxOf
<1>7. Rec(g)
  <2>1. ASSUME NEW s \in SUBSET (1..len)
        PROVE  g[s] = IF s = {} THEN c
                      ELSE DispatchEvent(g[s \ {Max(s)}], es[Max(s)])
    BY <1>4, <1>5, <1>6 DEF FoldsTo
  <2>. QED
    BY <2>1
<1>8. Rec(iter)
  <2>. HIDE DEF Rec
  <2>. QED
    BY <1>7
<1>. DEFINE more == [p \in (Client \cup {iter[s] : s \in SUBSET (1..len)}) \X Told |->
                       DispatchEvent(p[1], p[2])]
<1>. HIDE DEF iter
<1>9. FoldsTo(iter, len, more, c, es)
  <2>1. ASSUME NEW s \in SUBSET (1..len), s # {}
        PROVE  more[<< iter[s \ {Max(s)}], es[Max(s)] >>]
                  = DispatchEvent(iter[s \ {Max(s)}], es[Max(s)])
    BY <1>6, <2>1
  <2>. HIDE DEF more
  <2>. QED
    BY <1>8, <2>1 DEF FoldsTo
<1>10. \A x \in Client, e \in Told : more[<< x, e >>] = Reader[<< x, e >>]
  <2>1. \A x \in Client, e \in Told : more[<< x, e >>] = DispatchEvent(x, e)
    OBVIOUS
  <2>. HIDE DEF more
  <2>. QED
    BY <1>4, <2>1
<1>. HIDE DEF more
<1>11. iter[1..Len(es)] = Folded(Reader, c, es)
  <2>1. IsStep(Reader, Client, Told) /\ SameSteps(more, Reader, Client, Told)
    BY <1>3, <1>10 DEF IsStep, SameSteps
  <2>2. FoldsTo(iter, Len(es), more, c, es)
    BY <1>9
  <2>. QED
    BY <2>1, <2>2, FoldsToFolded, SMT
<1>. QED
  BY <1>2, <1>11 DEF Reads

LEMMA ReadsNothing == ASSUME NEW c PROVE Reads(c, <<>>) = c
  BY FoldedNone DEF Reads

LEMMA ReadsType ==
    ASSUME NEW c \in Client, NEW es \in Seq(Told)
    PROVE  Reads(c, es) \in Client
  BY ReaderType, FoldedType DEF Reads

LEMMA ReadsMore ==
    ASSUME NEW c \in Client, NEW s \in Seq(Told), NEW t \in Seq(Told)
    PROVE  Reads(c, s \o t) = Reads(Reads(c, s), t)
<1>1. IsStep(Reader, Client, Told)
  BY ReaderType DEF IsStep
<1>. QED
  BY <1>1, FoldedConcat DEF Reads

(* An event more at a time: x is in S[k] after k of them.                  *)
LEMMA ReadsIn ==
    ASSUME NEW c \in Client, NEW es \in Seq(Told), NEW S, c \in S[0],
           \A k \in 1..Len(es) : \A x \in Client :
              x \in S[k - 1] => DispatchEvent(x, es[k]) \in S[k]
    PROVE  Reads(c, es) \in S[Len(es)]
<1>1. \A k \in 1..Len(es) : es[k] \in Told
  OBVIOUS
<1>2. \A k \in 1..Len(es) : \A x \in Client :
        x \in S[k - 1] => Reader[<< x, es[k] >>] \in S[k]
  BY <1>1, ReaderAt
<1>. QED
  BY <1>2, ReaderType, FoldedIn DEF Reads

LEMMA ReadsOne ==
    ASSUME NEW c \in Client, NEW e \in Told
    PROVE  Reads(c, << e >>) = DispatchEvent(c, e)
<1>. DEFINE es == << e >>
            S == [k \in 0..1 |-> IF k = 0 THEN {c} ELSE {DispatchEvent(c, e)}]
<1>1. es \in Seq(Told) /\ Len(es) = 1 /\ es[1] = e
  OBVIOUS
<1>2. S[0] = {c} /\ S[1] = {DispatchEvent(c, e)}
  OBVIOUS
<1>. HIDE DEF es, S
<1>3. \A k \in 1..Len(es) : \A x \in Client :
        x \in S[k - 1] => DispatchEvent(x, es[k]) \in S[k]
  <2>1. \A k \in 1..Len(es) : k = 1
    BY <1>1
  <2>. QED
    BY <1>1, <1>2, <2>1
<1>4. Reads(c, es) \in S[Len(es)]
  BY <1>1, <1>2, <1>3, ReadsIn
<1>. QED
  BY <1>1, <1>2, <1>4 DEF es

-----------------------------------------------------------------------------
(* A client that mirrors a match, at any point of a call.                  *)

Runs(m) ==
    m.currentPhase \in {"TurnStart", "Attack", "Auction", "TurnEnd", "GameEnd"}

(* Clients follow the cards from the start of a match to its last turn.    *)
Tracked(m) ==
    \/ m.currentPhase \in {"WaitForStart", "Attack", "Auction", "TurnEnd"}
    \/ m.currentPhase = "TurnStart" /\ CanDraw(m.deck)

Seen(c, m, i) == c.players[m.players[i].name]

HasCards(c, m) ==
    /\ \A i \in 1..Len(m.players) :
          Hand(m.players, i) # {} => Seen(c, m, i).cards # <<>>
    /\ m.discarded = <<>> =>
          /\ c.inPlay = m.cardsInAuction
          /\ \A i \in 1..Len(m.players) :
                /\ IsInjective(Seen(c, m, i).cards)
                /\ ToSet(Seen(c, m, i).cards) = Hand(m.players, i)

HasGold(c, m) ==
    \A i \in 1..Len(m.players) : Seen(c, m, i).gold = m.players[i].gold

HasAuctioneer(c, m) ==
    DOMAIN c.players = NamesOf(m) =>
        /\ m.currentAuctioneer + 1 \in 1..Len(m.players)
        /\ c.auctioneer = NameAt(m, m.currentAuctioneer + 1)

Mirrors(c, m) ==
    /\ c \in Client /\ ~c.thrown /\ NamesOf(m) \subseteq DOMAIN c.players
    /\ ToSet(m.deck) \subseteq c.deck
    /\ Len(m.cardsInAuction) <= Len(c.inPlay)
    /\ Tracked(m) => HasCards(c, m)
    /\ Runs(m) => HasGold(c, m) /\ HasAuctioneer(c, m)

(* What is on the table, in the deck and in the hands by the phase.        *)
Staged(m) ==
    /\ Distinct(m.players) /\ Apart(m)
    /\ m.currentPhase \notin {"Attack", "Auction"} => m.cardsInAuction = <<>>
    /\ m.currentPhase \in {"GameEnd", "Finished"} => ~CanDraw(m.deck)
    /\ m.currentPhase = "WaitForStart" =>
          \A i \in 1..Len(m.players) : Hand(m.players, i) = {}

LEMMA NamesSeen ==
    ASSUME NEW m, MatchType(m), NEW c, Mirrors(c, m)
    PROVE  \A i \in 1..Len(m.players) :
              m.players[i].name \in DOMAIN c.players /\ m.players[i].name \in Name
<1>1. NamesOf(m) = {m.players[i].name : i \in 1..Len(m.players)}
  BY NamesByPosition
<1>. QED
  BY <1>1, NameIsTyped DEF Mirrors, NameAt

(* The players, in their seats, own the same cards.                        *)
SameOwned(ps, qs) ==
    /\ Len(qs) = Len(ps)
    /\ \A i \in 1..Len(ps) : /\ qs[i].name = ps[i].name
                              /\ Hand(qs, i) = Hand(ps, i)

LEMMA HandsAreOwned ==
    ASSUME NEW ps, NEW qs, SameHands(ps, qs)
    PROVE  SameOwned(ps, qs)
  BY DEF SameHands, SameCards, SameOwned, Hand, Owned

LEMMA HandsNames ==
    ASSUME NEW m, MatchType(m), NEW r, MatchType(r),
           SameOwned(m.players, r.players)
    PROVE  /\ NamesOf(r) = NamesOf(m) /\ Len(r.players) = Len(m.players)
           /\ \A i \in 1..Len(m.players) :
                 /\ r.players[i].name = m.players[i].name
                 /\ Hand(r.players, i) = Hand(m.players, i)
<1>1. /\ NamesOf(m) = {m.players[i].name : i \in 1..Len(m.players)}
      /\ NamesOf(r) = {r.players[i].name : i \in 1..Len(r.players)}
  BY NamesByPosition
<1>. QED
  BY <1>1 DEF SameOwned

(* The cards stay where they are.                                          *)
LEMMA MirrorsKept ==
    ASSUME NEW m, MatchType(m), NEW r, MatchType(r), NEW c, NEW d,
           Mirrors(c, m), d \in Client, Kept(c, d),
           SameOwned(m.players, r.players), ToSet(r.deck) \subseteq ToSet(m.deck),
           r.cardsInAuction = m.cardsInAuction, r.discarded = m.discarded,
           Tracked(r) => Tracked(m),
           Runs(r) => HasGold(d, r) /\ HasAuctioneer(d, r)
    PROVE  Mirrors(d, r)
<1>1. /\ NamesOf(r) = NamesOf(m) /\ Len(r.players) = Len(m.players)
      /\ \A i \in 1..Len(m.players) :
            /\ r.players[i].name = m.players[i].name
            /\ Hand(r.players, i) = Hand(m.players, i)
  BY HandsNames
<1>2. \A i \in 1..Len(m.players) : Seen(d, r, i).cards = Seen(c, m, i).cards
  BY <1>1, NamesSeen DEF Kept, Seen
<1>3. HasCards(c, m) => HasCards(d, r)
  BY <1>1, <1>2 DEF HasCards, Kept
<1>. QED
  BY <1>1, <1>3 DEF Mirrors, Kept

(* So does the gold.                                                       *)
LEMMA MirrorsSame ==
    ASSUME NEW m, MatchType(m), NEW r, MatchType(r), NEW c, Mirrors(c, m),
           SameHands(m.players, r.players), SameGold(m.players, r.players),
           r.deck = m.deck, r.cardsInAuction = m.cardsInAuction,
           r.discarded = m.discarded, r.currentAuctioneer = m.currentAuctioneer,
           Tracked(r) => Tracked(m), Runs(r) => Runs(m)
    PROVE  Mirrors(c, r)
<1>0. SameOwned(m.players, r.players)
  BY HandsAreOwned
<1>1. /\ NamesOf(r) = NamesOf(m) /\ Len(r.players) = Len(m.players)
      /\ \A i \in 1..Len(m.players) : r.players[i].name = m.players[i].name
  BY <1>0, HandsNames
<1>2. Kept(c, c) /\ c \in Client
  BY DEF Kept, Mirrors
<1>3. HasGold(c, m) => HasGold(c, r)
  BY <1>1 DEF HasGold, SameGold, Seen
<1>4. HasAuctioneer(c, m) => HasAuctioneer(c, r)
  BY <1>1 DEF HasAuctioneer, NameAt
<1>. QED
  BY <1>0, <1>1, <1>2, <1>3, <1>4, MirrorsKept DEF Mirrors

-----------------------------------------------------------------------------
(* What a client makes of the lists of events of the phases.               *)

LEMMA UpdatesTold == ASSUME NEW es \in Seq(Update) PROVE es \in Seq(Told)
<1>1. Len(es) \in Nat /\ es = [k \in 1..Len(es) |-> es[k]]
      /\ \A k \in 1..Len(es) : es[k] \in Told
  BY DEF Told
<1>. QED
  BY <1>1, IsASeq

LEMMA KeptMore ==
    ASSUME NEW c, NEW d, NEW x, Kept(c, d), Kept(d, x)
    PROVE  Kept(c, x)
  BY DEF Kept

(* Every player has, or earns, some gold.                                  *)
TellsAll(c, ps, es, new) ==
    /\ Len(es) = Len(ps)
    /\ \A i \in 1..Len(ps) :
          /\ ps[i].name \in DOMAIN c.players /\ es[i].nickname = ps[i].name
          /\ \/ es[i].type = "SetGold" /\ new[i] = es[i].value
             \/ /\ es[i].type = "Earn"
                /\ new[i] = c.players[ps[i].name].gold + es[i].value

LEMMA GoldTold ==
    ASSUME NEW c, NEW ps, NEW es, NEW new, TellsAll(c, ps, es, new),
           c \in Client, ~c.thrown, ps \in Seq(PlayerType), Distinct(ps),
           es \in Seq(Update)
    PROVE  LET d == Reads(c, es)
           IN  /\ d \in Client /\ Kept(c, d) /\ d.auctioneer = c.auctioneer
               /\ \A i \in 1..Len(ps) : d.players[ps[i].name].gold = new[i]
<1>. DEFINE Sofar(k, x) ==
              /\ Kept(c, x) /\ x.auctioneer = c.auctioneer
              /\ \A i \in 1..Len(ps) : x.players[ps[i].name].gold =
                    IF i <= k THEN new[i] ELSE c.players[ps[i].name].gold
            S == [k \in 0..Len(es) |-> {x \in Client : Sofar(k, x)}]
<1>1. /\ Len(ps) \in Nat /\ Len(es) \in Nat /\ Len(es) = Len(ps)
      /\ \A k \in 1..Len(es) : es[k] \in Update
  BY DEF TellsAll
<1>2. Sofar(0, c)
  BY <1>1 DEF Kept
<1>3. ASSUME NEW k \in 1..Len(es), NEW x \in Client, Sofar(k - 1, x)
      PROVE  Sofar(k, DispatchEvent(x, es[k]))
  <2>. DEFINE y == DispatchEvent(x, es[k])
              n == ps[k].name
  <2>1. /\ ~x.thrown /\ DOMAIN x.players = DOMAIN c.players
        /\ es[k] \in Update /\ es[k].nickname = n /\ n \in DOMAIN x.players
        /\ x.players[n].gold = c.players[n].gold
    BY <1>1, <1>3 DEF Kept, TellsAll
  <2>2. \/ es[k].type = "SetGold" /\ new[k] = es[k].value
        \/ es[k].type = "Earn" /\ new[k] = x.players[n].gold + es[k].value
    BY <1>1, <2>1 DEF TellsAll
  <2>3. /\ y \in Client /\ Kept(x, y) /\ y.auctioneer = x.auctioneer
        /\ \A j \in DOMAIN x.players : y.players[j].gold =
              IF j = n THEN new[k] ELSE x.players[j].gold
    <3>. DEFINE e == es[k]
                v == new[k]
    <3>1. e \in Update /\ e.nickname = n /\ TellsGold(x, e, v)
      BY <2>1, <2>2 DEF TellsGold
    <3>2. y = DispatchEvent(x, e)
      OBVIOUS
    <3>. HIDE DEF e, n, v, y
    <3>3. LET d == DispatchEvent(x, e)
          IN  /\ d \in Client /\ Kept(x, d) /\ d.auctioneer = x.auctioneer
              /\ \A j \in DOMAIN x.players : d.players[j].gold =
                    IF j = e.nickname THEN v ELSE x.players[j].gold
      BY <2>1, <3>1, GoldMoves
    <3>. QED
      BY <3>1, <3>2, <3>3 DEF v
  <2>. HIDE DEF y
  <2>4. Kept(c, y) /\ y.auctioneer = c.auctioneer
    BY <1>3, <2>3, KeptMore
  <2>5. ASSUME NEW i \in 1..Len(ps)
        PROVE  y.players[ps[i].name].gold =
                  IF i <= k THEN new[i] ELSE c.players[ps[i].name].gold
    <3>1. y.players[ps[i].name].gold =
             IF ps[i].name = n THEN new[k] ELSE x.players[ps[i].name].gold
      <4>1. ps[i].name \in DOMAIN x.players
        BY <2>1 DEF TellsAll
      <4>. QED
        BY <2>3, <4>1
    <3>2. ps[i].name = n <=> i = k
      BY <1>1 DEF Distinct
    <3>3. i # k => (i <= k - 1 <=> i <= k)
      BY <1>1
    <3>. QED
      BY <1>3, <3>1, <3>2, <3>3
  <2>. QED
    BY <2>4, <2>5 DEF y
<1>. HIDE DEF Sofar
<1>4. \A k \in 0..Len(es) : S[k] = {x \in Client : Sofar(k, x)}
  OBVIOUS
<1>. HIDE DEF S
<1>5. \A k \in 1..Len(es) : \A x \in Client :
        x \in S[k - 1] => DispatchEvent(x, es[k]) \in S[k]
  <2>1. \A k \in 1..Len(es) : k - 1 \in 0..Len(es) /\ k \in 0..Len(es) /\ es[k] \in Told
    BY <1>1 DEF Told
  <2>. QED
    BY <1>3, <1>4, <2>1, DispatchType
<1>6. c \in S[0] /\ es \in Seq(Told)
  BY <1>1, <1>2, <1>4, UpdatesTold
<1>7. Reads(c, es) \in S[Len(es)]
  BY <1>5, <1>6, ReadsIn
<1>8. Reads(c, es) \in Client /\ Sofar(Len(es), Reads(c, es))
  BY <1>1, <1>4, <1>7
<1>. QED
  BY <1>1, <1>8 DEF Sofar

(* The cards that are drawn follow those in play.                          *)
LEMMA CardsTold ==
    ASSUME NEW c \in Client, ~c.thrown, NEW cards \in Seq(Card),
           ToSet(cards) \subseteq c.deck
    PROVE  LET d == Reads(c, Drawn(cards))
           IN  /\ d \in Client /\ ~d.thrown /\ d.players = c.players
               /\ d.deck = c.deck /\ d.auctioneer = c.auctioneer
               /\ Len(d.inPlay) = Len(c.inPlay) + Len(cards)
               /\ c.inPlay = <<>> => d.inPlay = cards
<1>. DEFINE es == Drawn(cards)
            Sofar(k, x) ==
              /\ ~x.thrown /\ x.players = c.players /\ x.deck = c.deck
              /\ x.auctioneer = c.auctioneer
              /\ Len(x.inPlay) = Len(c.inPlay) + k
              /\ \A j \in 1..k : x.inPlay[Len(c.inPlay) + j] = cards[j]
            S == [k \in 0..Len(es) |-> {x \in Client : Sofar(k, x)}]
<1>1. /\ es \in Seq(Update) /\ Len(es) = Len(cards) /\ Len(cards) \in Nat
      /\ \A k \in 1..Len(cards) : /\ es[k] \in Update /\ es[k] \in Told
                                  /\ es[k].type = "Draw" /\ es[k].value = cards[k]
  <2>1. es \in Seq(Update) /\ Len(es) = Len(cards) /\ Len(cards) \in Nat
        /\ \A k \in 1..Len(cards) : es[k] = Event("Draw", NoName, cards[k])
    BY DrawnType
  <2>. HIDE DEF es
  <2>2. \A k \in 1..Len(cards) : es[k] \in Update
    BY <2>1
  <2>. QED
    BY <2>1, <2>2, EventSays DEF Told
<1>. HIDE DEF es
<1>2. Len(c.inPlay) \in Nat /\ c.inPlay \in Seq(Card)
  BY Parts
<1>3. Sofar(0, c)
  BY <1>2
<1>4. ASSUME NEW k \in 1..Len(es), NEW x \in Client, Sofar(k - 1, x)
      PROVE  Sofar(k, DispatchEvent(x, es[k]))
  <2>. DEFINE y == DispatchEvent(x, es[k])
  <2>1. es[k].type = "Draw" /\ es[k].value = cards[k] /\ cards[k] \in x.deck
    <3>1. cards[k] \in ToSet(cards)
      BY <1>1, AtPosition
    <3>. QED
      BY <1>1, <1>4, <3>1
  <2>2. /\ y \in Client /\ y.deck = x.deck /\ y.auctioneer = x.auctioneer
        /\ ~y.thrown /\ y.players = x.players
        /\ y.inPlay = Append(x.inPlay, cards[k])
    BY <1>4, <2>1, DrawMoves
  <2>. HIDE DEF y
  <2>3. x.inPlay \in Seq(Card) /\ Len(x.inPlay) = Len(c.inPlay) + (k - 1)
    BY <1>4, Parts
  <2>4. /\ Len(y.inPlay) = Len(c.inPlay) + k
        /\ \A j \in 1..Len(x.inPlay) : y.inPlay[j] = x.inPlay[j]
        /\ y.inPlay[Len(c.inPlay) + k] = cards[k]
    <3>. DEFINE s == x.inPlay
    <3>1. s \in Seq(Card) /\ cards[k] \in Card
      BY <1>1, <2>3
    <3>. HIDE DEF s
    <3>2. /\ Len(Append(s, cards[k])) = Len(s) + 1
          /\ \A j \in 1..Len(s) : Append(s, cards[k])[j] = s[j]
          /\ Append(s, cards[k])[Len(s) + 1] = cards[k]
      BY <3>1
    <3>3. Len(c.inPlay) + (k - 1) + 1 = Len(c.inPlay) + k
      BY <1>1, <1>2
    <3>. QED
      BY <2>2, <2>3, <3>2, <3>3 DEF s
  <2>5. ASSUME NEW j \in 1..k PROVE y.inPlay[Len(c.inPlay) + j] = cards[j]
    <3>1. CASE j = k
      BY <2>4, <3>1
    <3>2. CASE j # k
      <4>1. j \in 1..(k - 1) /\ Len(c.inPlay) + j \in 1..Len(x.inPlay)
        BY <1>1, <1>2, <2>3, <3>2
      <4>. QED
        BY <1>4, <2>4, <4>1
    <3>. QED
      BY <3>1, <3>2
  <2>. QED
    BY <1>4, <2>2, <2>4, <2>5 DEF y
<1>. HIDE DEF Sofar
<1>5. \A k \in 0..Len(es) : S[k] = {x \in Client : Sofar(k, x)}
  OBVIOUS
<1>. HIDE DEF S
<1>6. \A k \in 1..Len(es) : \A x \in Client :
        x \in S[k - 1] => DispatchEvent(x, es[k]) \in S[k]
  <2>1. \A k \in 1..Len(es) : k - 1 \in 0..Len(es) /\ k \in 0..Len(es) /\ es[k] \in Told
    BY <1>1
  <2>. QED
    BY <1>4, <1>5, <2>1, DispatchType
<1>7. c \in S[0] /\ es \in Seq(Told)
  BY <1>1, <1>3, <1>5, UpdatesTold
<1>8. Reads(c, es) \in S[Len(es)]
  BY <1>6, <1>7, ReadsIn
<1>. DEFINE d == Reads(c, es)
<1>. HIDE DEF d
<1>9. d \in Client /\ Sofar(Len(cards), d)
  BY <1>1, <1>5, <1>8 DEF d
<1>10. c.inPlay = <<>> => d.inPlay = cards
  <2>. SUFFICES ASSUME c.inPlay = <<>> PROVE d.inPlay = cards
    OBVIOUS
  <2>1. Len(d.inPlay) = Len(cards) /\ \A j \in 1..Len(cards) : d.inPlay[j] = cards[j]
    BY <1>1, <1>9 DEF Sofar
  <2>2. d.inPlay \in Seq(Card)
    BY <1>9, Parts
  <2>. QED
    BY <2>1, <2>2
<1>. QED
  BY <1>9, <1>10 DEF Sofar, d, es

(* The winners change nothing that is shown.                               *)
LEMMA WinnersTold ==
    ASSUME NEW c \in Client, ~c.thrown, NEW es \in Seq(Update),
           \A k \in 1..Len(es) : es[k].type \in {"Error", "Winner", "Leave"}
    PROVE  Reads(c, es) = c
<1>. DEFINE S == [k \in 0..Len(es) |-> {c}]
<1>1. \A k \in 0..Len(es) : S[k] = {c}
  OBVIOUS
<1>2. \A k \in 1..Len(es) : k - 1 \in 0..Len(es) /\ k \in 0..Len(es)
  OBVIOUS
<1>. HIDE DEF S
<1>3. \A k \in 1..Len(es) : DispatchEvent(c, es[k]) = c
  BY NothingShown
<1>4. \A k \in 1..Len(es) : \A x \in Client :
        x \in S[k - 1] => DispatchEvent(x, es[k]) \in S[k]
  BY <1>1, <1>2, <1>3
<1>5. c \in S[0] /\ es \in Seq(Told) /\ Len(es) \in 0..Len(es)
  BY <1>1, UpdatesTold
<1>6. Reads(c, es) \in S[Len(es)]
  BY <1>4, <1>5, ReadsIn
<1>. QED
  BY <1>1, <1>5, <1>6

-----------------------------------------------------------------------------
(* The phases.                                                             *)

LEMMA StagedPhase ==
    ASSUME NEW m, Playing(m), Staged(m)
    PROVE  /\ Staged(OnPhase(m))
           /\ OnPhase(m).currentPhase = "WaitForStart"
                => m.currentPhase = "WaitForStart"
<1>. DEFINE r == OnPhase(m)
<1>1. CASE Resting(m)
  BY <1>1, RestingStays
<1>2. CASE ~Resting(m)
  <2>0. MatchType(m) /\ MatchType(r) /\ m.fault = "none"
    BY OnPhaseSound DEF Playing, Sound
  <2>1. Keeps(m, r)
    BY OnPhaseKeeps
  <2>2. Distinct(r.players) /\ Apart(r)
    BY <2>0, <2>1, KeepsNames DEF Staged, Keeps
  <2>3. m.currentPhase \in {"TurnStart", "Attack", "Auction", "TurnEnd", "GameEnd"}
    BY <1>2, <2>0 DEF MatchType, Phase, Resting, Playing, Sound
  <2>4. CASE m.currentPhase = "TurnStart"
    <3>1. r = OnTurnStartPhase(m)
      BY <1>2, <2>4, PhaseMethod
    <3>2. \/ /\ r.currentPhase = "GameEnd" /\ ~CanDraw(m.deck)
             /\ r.cardsInAuction = m.cardsInAuction /\ r.deck = m.deck
          \/ r.currentPhase = "Attack"
      BY <2>4, <3>1, TurnStartResult
    <3>3. m.cardsInAuction = <<>>
      BY <2>4 DEF Staged
    <3>. HIDE DEF r
    <3>. QED
      BY <2>2, <3>2, <3>3 DEF Staged, r
  <2>5. CASE m.currentPhase = "Attack"
    <3>1. r = OnAttackPhase(m)
      BY <1>2, <2>5, PhaseMethod
    <3>2. /\ r.currentPhase \in {"Auction", "TurnEnd", "Attack"}
          /\ r.currentPhase = "TurnEnd" => r.cardsInAuction = <<>>
      BY <2>5, <3>1, AttackResult
    <3>. HIDE DEF r
    <3>. QED
      BY <2>2, <3>2 DEF Staged, r
  <2>6. CASE m.currentPhase = "Auction"
    <3>1. r = OnAuctionPhase(m)
      BY <1>2, <2>6, PhaseMethod
    <3>2. /\ r.currentPhase \in {"TurnEnd", "Attack"}
          /\ r.currentPhase = "TurnEnd" => r.cardsInAuction = <<>>
      BY <2>6, <3>1, AuctionResult
    <3>. HIDE DEF r
    <3>. QED
      BY <2>2, <3>2 DEF Staged, r
  <2>7. CASE m.currentPhase = "TurnEnd"
    <3>1. r = OnTurnEndPhase(m)
      BY <1>2, <2>7, PhaseMethod
    <3>2. r.currentPhase = "TurnStart" /\ r.cardsInAuction = m.cardsInAuction
      BY <2>7, <3>1, TurnEndSound, TurnEndResult
    <3>3. m.cardsInAuction = <<>>
      BY <2>7 DEF Staged
    <3>. HIDE DEF r
    <3>. QED
      BY <2>2, <3>2, <3>3 DEF Staged, r
  <2>8. CASE m.currentPhase = "GameEnd"
    <3>1. r = OnGameEndPhase(m)
      BY <1>2, <2>8, PhaseMethod
    <3>2. /\ r.currentPhase = "Finished" /\ r.cardsInAuction = m.cardsInAuction
          /\ r.deck = m.deck
      BY <2>8, <3>1, GameEndResult
    <3>3. m.cardsInAuction = <<>> /\ ~CanDraw(m.deck)
      BY <2>8 DEF Staged
    <3>. HIDE DEF r
    <3>. QED
      BY <2>2, <3>2, <3>3 DEF Staged, r
  <2>. QED
    BY <2>3, <2>4, <2>5, <2>6, <2>7, <2>8
<1>. QED
  BY <1>1, <1>2

(* A client that mirrors m mirrors r once it has read the events r adds.   *)
Carries(m, r) ==
    \E es \in Seq(Update) :
        /\ r.updateEvent = m.updateEvent \o es
        /\ \A c : Mirrors(c, m) => Mirrors(Reads(c, es), r)

LEMMA CarriesMore ==
    ASSUME NEW m, MatchType(m), NEW n, NEW r, Carries(m, n), Carries(n, r)
    PROVE  Carries(m, r)
<1>1. PICK s \in Seq(Update) :
        /\ n.updateEvent = m.updateEvent \o s
        /\ \A c : Mirrors(c, m) => Mirrors(Reads(c, s), n)
  BY DEF Carries
<1>2. PICK t \in Seq(Update) :
        /\ r.updateEvent = n.updateEvent \o t
        /\ \A c : Mirrors(c, n) => Mirrors(Reads(c, t), r)
  BY DEF Carries
<1>. DEFINE u == m.updateEvent
<1>3. u \in Seq(Update)
  BY DEF MatchType
<1>4. r.updateEvent = m.updateEvent \o (s \o t) /\ s \o t \in Seq(Update)
  <2>1. r.updateEvent = (u \o s) \o t
    BY <1>1, <1>2
  <2>. HIDE DEF u
  <2>2. (u \o s) \o t = u \o (s \o t) /\ s \o t \in Seq(Update)
    BY <1>3, ThreeParts
  <2>3. r.updateEvent = u \o (s \o t)
    BY <2>1, <2>2, Zenon
  <2>. QED
    BY <2>2, <2>3 DEF u
<1>5. ASSUME NEW c, Mirrors(c, m) PROVE Mirrors(Reads(c, s \o t), r)
  <2>1. c \in Client /\ s \in Seq(Told) /\ t \in Seq(Told)
    BY <1>5, UpdatesTold DEF Mirrors
  <2>2. Reads(c, s \o t) = Reads(Reads(c, s), t)
    BY <2>1, ReadsMore
  <2>. QED
    BY <1>1, <1>2, <1>5, <2>2
<1>. QED
  BY <1>4, <1>5 DEF Carries

LEMMA CarriesNothing ==
    ASSUME NEW m, MatchType(m), NEW r, r.updateEvent = m.updateEvent,
           \A c : Mirrors(c, m) => Mirrors(c, r)
    PROVE  Carries(m, r)
<1>. DEFINE none == <<>>
<1>1. m.updateEvent \o none = m.updateEvent /\ none \in Seq(Update)
  BY ConcatEmptySeq DEF MatchType
<1>2. \A c : Reads(c, none) = c
  BY ReadsNothing
<1>. HIDE DEF none
<1>. QED
  BY <1>1, <1>2 DEF Carries

LEMMA TurnStartCarries ==
    ASSUME NEW m, Playing(m), Staged(m), m.currentPhase = "TurnStart"
    PROVE  Carries(m, OnTurnStartPhase(m))
<1>. DEFINE r == OnTurnStartPhase(m)
<1>1. MatchType(m) /\ MatchType(r)
  BY TurnStartSound DEF Playing, Sound
<1>2. /\ r.players = m.players /\ r.discarded = m.discarded
      /\ r.currentAuctioneer = m.currentAuctioneer
      /\ \/ /\ r.currentPhase = "GameEnd"
            /\ r.cardsInAuction = m.cardsInAuction
            /\ r.deck = m.deck /\ r.updateEvent = m.updateEvent
         \/ /\ r.currentPhase = "Attack" /\ CanDraw(m.deck)
            /\ r.deck = SubSeq(m.deck, 1, Len(m.deck) - CardsPerTurn)
            /\ r.updateEvent = m.updateEvent \o Drawn(r.cardsInAuction)
            /\ r.cardsInAuction = m.cardsInAuction
                  \o Reverse(SubSeq(m.deck,
                         Len(m.deck) - CardsPerTurn + 1, Len(m.deck)))
  BY TurnStartResult
<1>. HIDE DEF r
<1>3. SameHands(m.players, r.players) /\ SameGold(m.players, r.players)
      /\ NamesOf(r) = NamesOf(m)
  BY <1>2 DEF SameHands, SameCards, SameGold, NamesOf, NameAt
<1>4. CASE r.currentPhase = "GameEnd"
  <2>1. ~Tracked(r) /\ Runs(m) /\ r.cardsInAuction = m.cardsInAuction
        /\ r.deck = m.deck /\ r.updateEvent = m.updateEvent
    BY <1>2, <1>4 DEF Tracked, Runs
  <2>2. \A c : Mirrors(c, m) => Mirrors(c, r)
    BY <1>1, <1>2, <1>3, <2>1, MirrorsSame
  <2>. QED
    BY <1>1, <2>1, <2>2, CarriesNothing DEF r
<1>5. CASE r.currentPhase = "Attack"
  <2>. DEFINE k == Len(m.deck) - CardsPerTurn
              drawn == Reverse(SubSeq(m.deck, k + 1, Len(m.deck)))
              table == r.cardsInAuction
  <2>1. /\ CanDraw(m.deck) /\ r.deck = SubSeq(m.deck, 1, k)
        /\ r.updateEvent = m.updateEvent \o Drawn(table)
        /\ table = m.cardsInAuction \o drawn
    BY <1>2, <1>5
  <2>2. m.deck \in Seq(Card) /\ k \in 0..Len(m.deck) /\ table \in Seq(Card)
    <3>1. m.deck \in Seq(Card) /\ table \in Seq(Card)
      BY <1>1 DEF MatchType
    <3>. DEFINE n == Len(m.deck)
    <3>2. n \in Nat /\ n >= CardsPerTurn /\ CardsPerTurn \in Nat
      BY <2>1, <3>1, ConfigAssumption DEF CanDraw
    <3>. HIDE DEF n
    <3>3. n - CardsPerTurn \in 0..n
      BY <3>2
    <3>. QED
      BY <3>1, <3>3 DEF n
  <2>3. /\ drawn \in Seq(Card)
        /\ ToSet(m.deck) = ToSet(SubSeq(m.deck, 1, k)) \cup ToSet(drawn)
    BY <2>2, CutPile
  <2>4. m.cardsInAuction = <<>>
    BY DEF Staged
  <2>. HIDE DEF drawn, k
  <2>5. table = drawn
    BY <2>1, <2>3, <2>4, ConcatEmptySeq
  <2>6. Drawn(table) \in Seq(Update)
    BY <2>2, DrawnType
  <2>7. ASSUME NEW c, Mirrors(c, m) PROVE Mirrors(Reads(c, Drawn(table)), r)
    <3>. DEFINE d == Reads(c, Drawn(table))
    <3>1. /\ c \in Client /\ ~c.thrown /\ ToSet(table) \subseteq c.deck
          /\ ToSet(r.deck) \subseteq c.deck
      BY <2>1, <2>3, <2>5, <2>7 DEF Mirrors
    <3>2. /\ d \in Client /\ ~d.thrown /\ d.players = c.players
          /\ d.deck = c.deck /\ d.auctioneer = c.auctioneer
          /\ Len(d.inPlay) = Len(c.inPlay) + Len(table)
          /\ c.inPlay = <<>> => d.inPlay = table
      BY <2>2, <3>1, CardsTold
    <3>. HIDE DEF d
    <3>3. HasCards(c, m) /\ HasGold(c, m) /\ HasAuctioneer(c, m)
      BY <2>1, <2>7 DEF Mirrors, Tracked, Runs
    <3>4. HasCards(d, r)
      BY <1>2, <2>4, <3>2, <3>3 DEF HasCards, Seen
    <3>5. HasGold(d, r) /\ HasAuctioneer(d, r)
      BY <1>2, <1>3, <3>2, <3>3 DEF HasGold, HasAuctioneer, Seen, NameAt
    <3>6. Len(table) <= Len(d.inPlay)
      <4>. DEFINE a == Len(c.inPlay)
                  b == Len(table)
      <4>1. a \in Nat /\ b \in Nat /\ Len(d.inPlay) = a + b
        BY <2>2, <3>1, <3>2, Parts
      <4>. HIDE DEF a, b
      <4>2. b <= Len(d.inPlay)
        BY <4>1
      <4>. QED
        BY <4>2 DEF b
    <3>7. Mirrors(d, r)
      BY <1>3, <2>7, <3>1, <3>2, <3>4, <3>5, <3>6 DEF Mirrors
    <3>. QED
      BY <3>7 DEF d
  <2>. HIDE DEF table
  <2>8. Carries(m, r)
    BY <2>1, <2>6, <2>7 DEF Carries
  <2>. QED
    BY <2>8 DEF r
<1>. QED
  BY <1>2, <1>4, <1>5

-----------------------------------------------------------------------------
(* A card goes to a player.                                                *)

LEMMA GetsHands ==
    ASSUME NEW ps, NEW qs, NEW w, NEW card, Gets(ps, qs, w, card)
    PROVE  /\ Len(qs) = Len(ps)
           /\ \A i \in 1..Len(ps) :
                 /\ qs[i].name = ps[i].name
                 /\ Hand(qs, i) = IF i = w THEN Hand(ps, i) \cup {card}
                                           ELSE Hand(ps, i)
  BY DEF Gets, Hand, Owned

LEMMA GetsNames ==
    ASSUME NEW m, MatchType(m), NEW r, MatchType(r), NEW w, NEW card,
           Gets(m.players, r.players, w, card)
    PROVE  /\ NamesOf(r) = NamesOf(m) /\ Len(r.players) = Len(m.players)
           /\ \A i \in 1..Len(m.players) : r.players[i].name = m.players[i].name
<1>1. /\ Len(r.players) = Len(m.players)
      /\ \A i \in 1..Len(m.players) : r.players[i].name = m.players[i].name
  BY DEF Gets
<1>2. /\ NamesOf(m) = {m.players[i].name : i \in 1..Len(m.players)}
      /\ NamesOf(r) = {r.players[i].name : i \in 1..Len(r.players)}
  BY NamesByPosition
<1>. QED
  BY <1>1, <1>2

LEMMA HasCardsKept ==
    ASSUME NEW m, MatchType(m), NEW c, NEW d, HasCards(c, m), Kept(c, d),
           NamesOf(m) \subseteq DOMAIN c.players
    PROVE  HasCards(d, m)
<1>1. NamesOf(m) = {m.players[i].name : i \in 1..Len(m.players)}
  BY NamesByPosition
<1>2. \A i \in 1..Len(m.players) : Seen(d, m, i).cards = Seen(c, m, i).cards
  BY <1>1 DEF Kept, Seen
<1>. QED
  BY <1>2 DEF HasCards, Kept

LEMMA OneLess ==
    ASSUME NEW s \in Seq(Card), s # <<>>, NEW t \in Seq(Card), Len(s) <= Len(t)
    PROVE  t # <<>> /\ Len(Tail(s)) <= Len(Tail(t))
<1>1. Len(s) \in Nat \ {0} /\ Len(t) \in Nat /\ Len(Tail(s)) = Len(s) - 1
  OBVIOUS
<1>2. t # <<>>
  BY <1>1
<1>3. Len(Tail(t)) = Len(t) - 1
  BY <1>2
<1>. QED
  BY <1>1, <1>2, <1>3

(* The first card on the table goes to player w, and the client is told.   *)
LEMMA CardGoes ==
    ASSUME NEW m, MatchType(m), Apart(m), Distinct(m.players),
           m.cardsInAuction # <<>>, NEW w \in 1..Len(m.players),
           NEW r, MatchType(r),
           Gets(m.players, r.players, w, Head(m.cardsInAuction)),
           r.cardsInAuction = Tail(m.cardsInAuction), r.discarded = m.discarded,
           NEW c \in Client, ~c.thrown, NamesOf(m) \subseteq DOMAIN c.players,
           Len(m.cardsInAuction) <= Len(c.inPlay), HasCards(c, m),
           NEW e, e.type = "GetCard", e.nickname = m.players[w].name
    PROVE  LET d == DispatchEvent(c, e)
           IN  /\ d \in Client /\ ~d.thrown /\ d.deck = c.deck
               /\ d.auctioneer = c.auctioneer
               /\ DOMAIN d.players = DOMAIN c.players /\ SameGoldShown(c, d)
               /\ Len(r.cardsInAuction) <= Len(d.inPlay) /\ HasCards(d, r)
<1>. DEFINE d == DispatchEvent(c, e)
            card == Head(m.cardsInAuction)
            ps == m.players
            qs == r.players
<1>1. /\ Len(qs) = Len(ps)
      /\ \A i \in 1..Len(ps) :
            /\ qs[i].name = ps[i].name
            /\ Hand(qs, i) = IF i = w THEN Hand(ps, i) \cup {card} ELSE Hand(ps, i)
  <2>1. Gets(ps, qs, w, card)
    OBVIOUS
  <2>. HIDE DEF ps, qs, card
  <2>. QED
    BY <2>1, GetsHands
<1>2. m.cardsInAuction \in Seq(Card) /\ c.inPlay \in Seq(Card)
  BY Parts DEF MatchType
<1>3. c.inPlay # <<>> /\ Len(Tail(m.cardsInAuction)) <= Len(Tail(c.inPlay))
  BY <1>2, OneLess
<1>4. \A i \in 1..Len(ps) : ps[i].name \in DOMAIN c.players
  <2>1. NamesOf(m) = {m.players[i].name : i \in 1..Len(m.players)}
    BY NamesByPosition
  <2>. QED
    BY <2>1
<1>5. /\ d \in Client /\ d.deck = c.deck /\ d.auctioneer = c.auctioneer
      /\ ~d.thrown /\ d.inPlay = Tail(c.inPlay)
      /\ DOMAIN d.players = DOMAIN c.players /\ SameGoldShown(c, d)
      /\ \A k \in DOMAIN c.players : d.players[k].cards =
           IF k = e.nickname
           THEN Append(c.players[k].cards, Head(c.inPlay))
           ELSE c.players[k].cards
  BY <1>3, <1>4, CardMoves
<1>. HIDE DEF d
<1>6. \A i \in 1..Len(ps) : Seen(d, r, i).cards =
         IF i = w THEN Append(Seen(c, m, i).cards, Head(c.inPlay))
                  ELSE Seen(c, m, i).cards
  <2>1. \A i \in 1..Len(ps) : ps[i].name = e.nickname <=> i = w
    BY DEF Distinct
  <2>. QED
    BY <1>1, <1>4, <1>5, <2>1 DEF Seen
<1>7. \A i \in 1..Len(ps) : Seen(c, m, i).cards \in Seq(Card)
  BY <1>4, Parts DEF Seen, Shown
<1>8. Head(c.inPlay) \in Card /\ card \in Card /\ card \in ToSet(m.cardsInAuction)
  BY <1>2, <1>3, TailPile
<1>9. ASSUME NEW i \in 1..Len(qs), Hand(qs, i) # {}
      PROVE  Seen(d, r, i).cards # <<>>
  <2>. DEFINE s == Seen(c, m, i).cards
              x == Head(c.inPlay)
  <2>1. CASE i = w
    <3>1. s \in Seq(Card) /\ x \in Card
      BY <1>1, <1>7, <1>8
    <3>2. Seen(d, r, i).cards = Append(s, x)
      BY <1>1, <1>6, <2>1
    <3>. HIDE DEF s, x
    <3>3. Append(s, x) # <<>>
      BY <3>1
    <3>. QED
      BY <3>2, <3>3
  <2>2. CASE i # w
    BY <1>1, <1>6, <1>9, <2>2 DEF HasCards
  <2>. QED
    BY <2>1, <2>2
<1>10. ASSUME r.discarded = <<>>, NEW i \in 1..Len(qs)
       PROVE  /\ IsInjective(Seen(d, r, i).cards)
              /\ ToSet(Seen(d, r, i).cards) = Hand(qs, i)
  <2>. DEFINE s == Seen(c, m, i).cards
  <2>1. s \in Seq(Card) /\ IsInjective(s) /\ ToSet(s) = Hand(ps, i)
        /\ Head(c.inPlay) = card
    BY <1>1, <1>7, <1>10 DEF HasCards
  <2>2. card \notin Hand(ps, i)
    BY <1>1, <1>8 DEF Apart, Hands, Piles
  <2>3. CASE i = w
    <3>1. Seen(d, r, i).cards = Append(s, card)
      BY <1>1, <1>6, <2>1, <2>3
    <3>2. Hand(qs, i) = Hand(ps, i) \cup {card}
      BY <1>1, <2>3
    <3>. HIDE DEF s, card
    <3>3. ToSet(Append(s, card)) = ToSet(s) \cup {card} /\ IsInjective(Append(s, card))
      BY <1>8, <2>1, <2>2, AppendPile
    <3>. QED
      BY <2>1, <3>1, <3>2, <3>3
  <2>4. CASE i # w
    BY <1>1, <1>6, <2>1, <2>4
  <2>. QED
    BY <2>3, <2>4
<1>11. r.discarded = <<>> => d.inPlay = r.cardsInAuction
  BY <1>5 DEF HasCards
<1>12. HasCards(d, r)
  BY <1>9, <1>10, <1>11 DEF HasCards
<1>. QED
  BY <1>3, <1>5, <1>12 DEF d

LEMMA AttackCarries ==
    ASSUME NEW m, Playing(m), Staged(m), m.currentPhase = "Attack"
    PROVE  Carries(m, OnAttackPhase(m))
<1>. DEFINE r == OnAttackPhase(m)
            w == GetCurrentWinner(m)
            won == IsThereWinner(m) /\ WinnerIndices(m) # {}
            card == Head(m.cardsInAuction)
            e == Event("GetCard", NameAt(m, w), 0)
<1>1. MatchType(m) /\ MatchType(r) /\ m.cardsInAuction # <<>>
  BY AttackSound DEF Playing, Sound
<1>2. /\ won => w \in 1..Len(m.players) /\ m.players[w] \in PlayerType
      /\ r.deck = m.deck /\ r.discarded = m.discarded
      /\ r.currentAuctioneer = m.currentAuctioneer
      /\ r.updateEvent = IF won THEN Append(m.updateEvent, e) ELSE m.updateEvent
      /\ r.cardsInAuction = IF won THEN Tail(m.cardsInAuction)
                                   ELSE m.cardsInAuction
      /\ r.players = ResetAll(IF won THEN [m.players EXCEPT ![w] = AddCard(@, card)]
                                     ELSE m.players)
      /\ r.currentPhase \in {"Auction", "TurnEnd", "Attack"}
  BY AttackResult
<1>3. m.players \in Seq(PlayerType) /\ card \in Card /\ m.updateEvent \in Seq(Update)
      /\ m.cardsInAuction \in Seq(Card)
  <2>1. m.players \in Seq(PlayerType) /\ m.updateEvent \in Seq(Update)
        /\ m.cardsInAuction \in Seq(Card)
    BY <1>1 DEF MatchType
  <2>. QED
    BY <1>1, <2>1, TailPile
<1>. HIDE DEF r, won, w
<1>4. Tracked(m) /\ Runs(m) /\ (Tracked(r) => Tracked(m)) /\ (Runs(r) => Runs(m))
  BY DEF Tracked, Runs
<1>5. CASE ~won
  <2>1. r.players = ResetAll(m.players)
    BY <1>2, <1>5
  <2>2. SameHands(m.players, r.players) /\ SameGold(m.players, r.players)
    BY <1>3, <2>1, ResetHands, ResetGold
  <2>3. \A c : Mirrors(c, m) => Mirrors(c, r)
    BY <1>1, <1>2, <1>4, <1>5, <2>2, MirrorsSame
  <2>. QED
    BY <1>1, <1>2, <1>5, <2>3, CarriesNothing DEF r
<1>6. CASE won
  <2>. DEFINE p == AddCard(m.players[w], card)
  <2>1. w \in 1..Len(m.players) /\ m.players[w] \in PlayerType
    BY <1>2, <1>6
  <2>2. /\ p \in PlayerType /\ p.gold = m.players[w].gold
        /\ p.name = m.players[w].name
        /\ p.activeCards = m.players[w].activeCards
        /\ p.purchasedThisTurnCards = m.players[w].purchasedThisTurnCards \cup {card}
    BY <1>3, <2>1, AddCardType DEF AddCard, PlayerType
  <2>3. r.players = ResetAll([m.players EXCEPT ![w] = p])
    BY <1>2, <1>6
  <2>. HIDE DEF p, card
  <2>4. Gets(m.players, r.players, w, card)
    BY <1>3, <2>1, <2>2, <2>3, WinnerGets
  <2>5. SameGold(m.players, r.players)
    BY <1>3, <2>1, <2>2, <2>3, ReplacedGold DEF SameGold
  <2>6. e.type = "GetCard" /\ e.nickname = m.players[w].name /\ e \in Told
        /\ << e >> \in Seq(Update)
    <3>1. NameAt(m, w) \in Name
      BY <1>1, <2>1, NameIsTyped
    <3>2. e \in Update /\ << e >> \in Seq(Update)
      BY <3>1, EventIsUpdate DEF EventType
    <3>3. e.type = "GetCard" /\ e.nickname = m.players[w].name
      BY EventSays DEF NameAt
    <3>. QED
      BY <3>2, <3>3 DEF Told
  <2>. HIDE DEF e
  <2>7. r.updateEvent = m.updateEvent \o << e >>
    <3>. DEFINE u == m.updateEvent
    <3>1. r.updateEvent = Append(u, e) /\ u \in Seq(Update)
      BY <1>2, <1>3, <1>6
    <3>. HIDE DEF u
    <3>2. Append(u, e) = u \o << e >>
      BY <3>1
    <3>. QED
      BY <3>1, <3>2 DEF u
  <2>8. ASSUME NEW c, Mirrors(c, m) PROVE Mirrors(Reads(c, << e >>), r)
    <3>. DEFINE d == DispatchEvent(c, e)
    <3>1. /\ c \in Client /\ ~c.thrown /\ NamesOf(m) \subseteq DOMAIN c.players
          /\ Len(m.cardsInAuction) <= Len(c.inPlay) /\ ToSet(m.deck) \subseteq c.deck
          /\ HasCards(c, m) /\ HasGold(c, m) /\ HasAuctioneer(c, m)
      BY <1>4, <2>8 DEF Mirrors
    <3>2. Reads(c, << e >>) = d
      BY <2>6, <3>1, ReadsOne
    <3>3. /\ r.cardsInAuction = Tail(m.cardsInAuction) /\ r.discarded = m.discarded
          /\ Apart(m) /\ Distinct(m.players)
          /\ Gets(m.players, r.players, w, Head(m.cardsInAuction))
      BY <1>2, <1>6, <2>4 DEF Staged, card
    <3>4. /\ d \in Client /\ ~d.thrown /\ d.deck = c.deck
          /\ d.auctioneer = c.auctioneer
          /\ DOMAIN d.players = DOMAIN c.players /\ SameGoldShown(c, d)
          /\ Len(r.cardsInAuction) <= Len(d.inPlay) /\ HasCards(d, r)
      <4>1. /\ MatchType(m) /\ MatchType(r) /\ m.cardsInAuction # <<>>
            /\ w \in 1..Len(m.players)
        BY <1>1, <2>1
      <4>2. e.type = "GetCard" /\ e.nickname = m.players[w].name
        BY <2>6
      <4>. QED
        BY <3>1, <3>3, <4>1, <4>2, CardGoes, Zenon
    <3>. HIDE DEF d
    <3>5. /\ NamesOf(r) = NamesOf(m) /\ Len(r.players) = Len(m.players)
          /\ \A i \in 1..Len(m.players) : r.players[i].name = m.players[i].name
      BY <1>1, <2>4, GetsNames
    <3>6. \A i \in 1..Len(m.players) : m.players[i].name \in DOMAIN c.players
      BY <1>1, <2>8, NamesSeen
    <3>7. HasGold(d, r) /\ HasAuctioneer(d, r)
      <4>1. HasGold(d, r)
        BY <2>5, <3>1, <3>4, <3>5, <3>6 DEF HasGold, SameGold, SameGoldShown, Seen
      <4>2. r.currentAuctioneer = m.currentAuctioneer
        BY <1>2
      <4>3. HasAuctioneer(d, r)
        BY <3>1, <3>4, <3>5, <4>2 DEF HasAuctioneer, NameAt
      <4>. QED
        BY <4>1, <4>3
    <3>8. Mirrors(d, r)
      BY <1>2, <3>1, <3>4, <3>5, <3>7 DEF Mirrors
    <3>. QED
      BY <3>2, <3>8
  <2>9. Carries(m, r)
    BY <2>6, <2>7, <2>8 DEF Carries
  <2>. QED
    BY <2>9 DEF r
<1>. QED
  BY <1>5, <1>6

LEMMA TwoAtOnce ==
    ASSUME NEW S, NEW e \in S, NEW f \in S
    PROVE  /\ << e >> \in Seq(S) /\ << f >> \in Seq(S)
           /\ << e, f >> = << e >> \o << f >>
<1>. DEFINE s == << e >>
            t == << f >>
            two == << e, f >>
<1>1. /\ s \in Seq(S) /\ Len(s) = 1 /\ s[1] = e
      /\ t \in Seq(S) /\ Len(t) = 1 /\ t[1] = f
      /\ two \in Seq(S) /\ Len(two) = 2 /\ two[1] = e /\ two[2] = f
  OBVIOUS
<1>. HIDE DEF s, t, two
<1>2. s \o t \in Seq(S) /\ Len(s \o t) = 2 /\ (s \o t)[1] = e /\ (s \o t)[2] = f
  <2>1. /\ s \o t \in Seq(S) /\ Len(s \o t) = Len(s) + Len(t)
        /\ \A i \in 1..Len(s) + Len(t) : (s \o t)[i] =
              IF i <= Len(s) THEN s[i] ELSE t[i - Len(s)]
    BY <1>1, ConcatProperties
  <2>2. Len(s) + Len(t) = 2 /\ 1 \in 1..2 /\ 2 \in 1..2 /\ 2 - Len(s) = 1
        /\ 1 <= Len(s) /\ ~(2 <= Len(s))
    BY <1>1
  <2>. QED
    BY <1>1, <2>1, <2>2
<1>. DEFINE both == s \o t
<1>. HIDE DEF both
<1>3. both \in Seq(S) /\ Len(both) = 2 /\ both[1] = e /\ both[2] = f
  BY <1>2 DEF both
<1>4. two = both
  BY <1>1, <1>3
<1>. QED
  BY <1>1, <1>4 DEF s, t, two, both

LEMMA ReadsTwo ==
    ASSUME NEW c \in Client, NEW e \in Told, NEW f \in Told
    PROVE  Reads(c, << e, f >>) = DispatchEvent(DispatchEvent(c, e), f)
<1>. DEFINE s == << e >>
            t == << f >>
            d == DispatchEvent(c, e)
<1>1. s \in Seq(Told) /\ t \in Seq(Told) /\ << e, f >> = s \o t
  BY TwoAtOnce
<1>2. Reads(c, s) = d /\ d \in Client
  BY ReadsOne, DispatchType
<1>3. Reads(d, t) = DispatchEvent(d, f)
  BY <1>2, ReadsOne
<1>. HIDE DEF s, t, d
<1>4. Reads(c, s \o t) = Reads(Reads(c, s), t)
  BY <1>1, ReadsMore
<1>. QED
  BY <1>1, <1>2, <1>3, <1>4 DEF d

LEMMA AuctionCarries ==
    ASSUME NEW m, Playing(m), Staged(m), m.currentPhase = "Auction"
    PROVE  Carries(m, OnAuctionPhase(m))
<1>. DEFINE r == OnAuctionPhase(m)
            w == GetCurrentWinner(m)
            sold == IsThereWinner(m) /\ WinnerIndices(m) # {}
            card == Head(m.cardsInAuction)
            e == Event("Pay", NameAt(m, w), m.currentOffer)
            f == Event("GetCard", NameAt(m, w), 0)
<1>1. MatchType(m) /\ MatchType(r) /\ m.cardsInAuction # <<>>
  BY AuctionSound DEF Playing, Sound
<1>2. /\ sold => /\ w \in 1..Len(m.players) /\ m.players[w] \in PlayerType
                 /\ m.currentOffer <= m.players[w].gold
      /\ r.deck = m.deck
      /\ r.discarded = IF sold THEN m.discarded ELSE Append(m.discarded, card)
      /\ r.currentAuctioneer = m.currentAuctioneer
      /\ r.updateEvent = IF sold THEN m.updateEvent \o << e, f >>
                                 ELSE m.updateEvent
      /\ r.cardsInAuction = Tail(m.cardsInAuction)
      /\ r.players = ResetAll(
            IF sold THEN [m.players EXCEPT
                            ![w] = Pay(AddCard(@, card), m.currentOffer)]
                    ELSE m.players)
      /\ r.currentPhase \in {"TurnEnd", "Attack"}
  BY AuctionResult
<1>3. m.players \in Seq(PlayerType) /\ card \in Card /\ m.updateEvent \in Seq(Update)
      /\ m.cardsInAuction \in Seq(Card) /\ m.currentOffer \in Nat
      /\ m.discarded \in Seq(Card)
  <2>1. m.players \in Seq(PlayerType) /\ m.updateEvent \in Seq(Update)
        /\ m.cardsInAuction \in Seq(Card) /\ m.currentOffer \in Nat
        /\ m.discarded \in Seq(Card)
    BY <1>1 DEF MatchType
  <2>. QED
    BY <1>1, <2>1, TailPile
<1>. HIDE DEF r, sold, w
<1>4. Tracked(m) /\ Runs(m) /\ (Tracked(r) => Tracked(m)) /\ (Runs(r) => Runs(m))
  BY DEF Tracked, Runs
<1>5. CASE ~sold
  <2>. HIDE DEF card, e, f
  <2>1. r.players = ResetAll(m.players) /\ r.discarded = Append(m.discarded, card)
        /\ r.updateEvent = m.updateEvent
        /\ r.cardsInAuction = Tail(m.cardsInAuction)
        /\ r.currentAuctioneer = m.currentAuctioneer /\ r.deck = m.deck
    BY <1>2, <1>5
  <2>2. SameHands(m.players, r.players) /\ SameGold(m.players, r.players)
    BY <1>3, <2>1, ResetHands, ResetGold
  <2>3. r.discarded # <<>>
    <3>. DEFINE s == m.discarded
    <3>1. s \in Seq(Card) /\ card \in Card /\ r.discarded = Append(s, card)
      BY <1>3, <2>1
    <3>. HIDE DEF s
    <3>2. Append(s, card) # <<>>
      BY <3>1
    <3>. QED
      BY <3>1, <3>2
  <2>4. /\ NamesOf(r) = NamesOf(m) /\ Len(r.players) = Len(m.players)
        /\ \A i \in 1..Len(m.players) :
              /\ r.players[i].name = m.players[i].name
              /\ Hand(r.players, i) = Hand(m.players, i)
    BY <1>1, <2>2, HandsAreOwned, HandsNames
  <2>5. ASSUME NEW c, Mirrors(c, m) PROVE Mirrors(c, r)
    <3>1. /\ c \in Client /\ ~c.thrown /\ NamesOf(m) \subseteq DOMAIN c.players
          /\ Len(m.cardsInAuction) <= Len(c.inPlay) /\ ToSet(m.deck) \subseteq c.deck
          /\ HasCards(c, m) /\ HasGold(c, m) /\ HasAuctioneer(c, m)
      BY <1>4, <2>5 DEF Mirrors
    <3>2. HasCards(c, r)
      BY <2>3, <2>4, <3>1 DEF HasCards, Seen
    <3>3. HasGold(c, r)
      BY <2>2, <2>4, <3>1 DEF HasGold, SameGold, Seen
    <3>4. HasAuctioneer(c, r)
      BY <2>1, <2>4, <3>1 DEF HasAuctioneer, NameAt
    <3>5. Len(r.cardsInAuction) <= Len(c.inPlay)
      <4>. DEFINE s == m.cardsInAuction
                  k == Len(c.inPlay)
      <4>1. s \in Seq(Card) /\ s # <<>> /\ Len(s) <= k /\ k \in Nat
        BY <1>1, <1>3, <3>1, Parts
      <4>. HIDE DEF s, k
      <4>2. Len(Tail(s)) <= k
        BY <4>1
      <4>. QED
        BY <2>1, <4>2 DEF s, k
    <3>. QED
      BY <2>1, <2>4, <3>1, <3>2, <3>3, <3>4, <3>5 DEF Mirrors
  <2>. QED
    BY <1>1, <2>1, <2>5, CarriesNothing DEF r
<1>6. CASE sold
  <2>. DEFINE q == AddCard(m.players[w], card)
              p == Pay(q, m.currentOffer)
              gold == m.players[w].gold - m.currentOffer
  <2>1. w \in 1..Len(m.players) /\ m.players[w] \in PlayerType
        /\ m.currentOffer <= m.players[w].gold
    BY <1>2, <1>6
  <2>2. /\ p \in PlayerType /\ p.gold = gold
        /\ p.name = m.players[w].name
        /\ p.activeCards = m.players[w].activeCards
        /\ p.purchasedThisTurnCards = m.players[w].purchasedThisTurnCards \cup {card}
    <3>1. q \in PlayerType /\ q.gold = m.players[w].gold
          /\ q.name = m.players[w].name
          /\ q.activeCards = m.players[w].activeCards
          /\ q.purchasedThisTurnCards = m.players[w].purchasedThisTurnCards \cup {card}
      BY <1>3, <2>1, AddCardType DEF AddCard, PlayerType
    <3>. HIDE DEF q
    <3>. QED
      BY <1>3, <2>1, <3>1, PayType DEF Pay, PlayerType
  <2>3. r.players = ResetAll([m.players EXCEPT ![w] = p])
    BY <1>2, <1>6
  <2>. HIDE DEF p, card
  <2>4. Gets(m.players, r.players, w, card)
    BY <1>3, <2>1, <2>2, <2>3, WinnerGets
  <2>5. \A i \in 1..Len(m.players) : r.players[i].gold =
           IF i = w THEN gold ELSE m.players[i].gold
    <3>. DEFINE ps == m.players
    <3>. HIDE DEF ps
    <3>1. ps \in Seq(PlayerType) /\ w \in 1..Len(ps)
      BY <1>3, <2>1 DEF ps
    <3>2. \A i \in 1..Len(ps) : ResetAll([ps EXCEPT ![w] = p])[i].gold =
             IF i = w THEN p.gold ELSE ps[i].gold
      BY <2>2, <3>1, ReplacedGold
    <3>3. r.players = ResetAll([ps EXCEPT ![w] = p])
      BY <2>3 DEF ps
    <3>. HIDE DEF gold
    <3>. QED
      BY <2>2, <3>2, <3>3 DEF ps
  <2>6. /\ e.type = "Pay" /\ e.nickname = m.players[w].name
        /\ e.value = m.currentOffer /\ e \in Update /\ e \in Told
        /\ f.type = "GetCard" /\ f.nickname = m.players[w].name /\ f \in Told
        /\ << e, f >> \in Seq(Update)
    <3>1. NameAt(m, w) \in Name
      BY <1>1, <2>1, NameIsTyped
    <3>2. e \in Update /\ f \in Update
      BY <1>3, <3>1, EventIsUpdate DEF EventType
    <3>3. /\ e.type = "Pay" /\ e.nickname = m.players[w].name
          /\ e.value = m.currentOffer
          /\ f.type = "GetCard" /\ f.nickname = m.players[w].name
      BY EventSays DEF NameAt
    <3>. HIDE DEF e, f
    <3>4. << e, f >> \in Seq(Update)
      BY <3>2
    <3>. QED
      BY <3>2, <3>3, <3>4 DEF Told
  <2>. HIDE DEF e, f, gold
  <2>7. r.updateEvent = m.updateEvent \o << e, f >>
    BY <1>2, <1>6
  <2>8. ASSUME NEW c, Mirrors(c, m) PROVE Mirrors(Reads(c, << e, f >>), r)
    <3>. DEFINE x == DispatchEvent(c, e)
                d == DispatchEvent(x, f)
    <3>1. /\ c \in Client /\ ~c.thrown /\ NamesOf(m) \subseteq DOMAIN c.players
          /\ Len(m.cardsInAuction) <= Len(c.inPlay) /\ ToSet(m.deck) \subseteq c.deck
          /\ HasCards(c, m) /\ HasGold(c, m) /\ HasAuctioneer(c, m)
      BY <1>4, <2>8 DEF Mirrors
    <3>2. Reads(c, << e, f >>) = d
      BY <2>6, <3>1, ReadsTwo
    <3>3. \A i \in 1..Len(m.players) : m.players[i].name \in DOMAIN c.players
      BY <1>1, <2>8, NamesSeen
    <3>4. TellsGold(c, e, gold)
      BY <2>1, <2>6, <3>1, <3>3 DEF TellsGold, gold, HasGold, Seen
    <3>5. /\ x \in Client /\ Kept(c, x) /\ x.auctioneer = c.auctioneer
          /\ \A k \in DOMAIN c.players : x.players[k].gold =
               IF k = e.nickname THEN gold ELSE c.players[k].gold
      BY <2>6, <3>1, <3>4, GoldMoves
    <3>. HIDE DEF x
    <3>6. /\ HasCards(x, m) /\ ~x.thrown /\ NamesOf(m) \subseteq DOMAIN x.players
          /\ Len(m.cardsInAuction) <= Len(x.inPlay) /\ x.deck = c.deck
          /\ DOMAIN x.players = DOMAIN c.players
      BY <1>1, <3>1, <3>5, HasCardsKept DEF Kept
    <3>7. /\ r.cardsInAuction = Tail(m.cardsInAuction) /\ r.discarded = m.discarded
          /\ Apart(m) /\ Distinct(m.players)
          /\ Gets(m.players, r.players, w, Head(m.cardsInAuction))
      BY <1>2, <1>6, <2>4 DEF Staged, card
    <3>8. /\ d \in Client /\ ~d.thrown /\ d.deck = x.deck
          /\ d.auctioneer = x.auctioneer
          /\ DOMAIN d.players = DOMAIN x.players /\ SameGoldShown(x, d)
          /\ Len(r.cardsInAuction) <= Len(d.inPlay) /\ HasCards(d, r)
      <4>1. /\ MatchType(m) /\ MatchType(r) /\ m.cardsInAuction # <<>>
            /\ w \in 1..Len(m.players) /\ x \in Client
        BY <1>1, <2>1, <3>5
      <4>2. f.type = "GetCard" /\ f.nickname = m.players[w].name
        BY <2>6
      <4>. QED
        BY <3>6, <3>7, <4>1, <4>2, CardGoes, Zenon
    <3>. HIDE DEF d
    <3>9. /\ NamesOf(r) = NamesOf(m) /\ Len(r.players) = Len(m.players)
          /\ \A i \in 1..Len(m.players) : r.players[i].name = m.players[i].name
      BY <1>1, <2>4, GetsNames
    <3>10. HasGold(d, r)
      <4>1. \A i \in 1..Len(m.players) : m.players[i].name = e.nickname <=> i = w
        BY <2>1, <2>6, <3>7 DEF Distinct
      <4>2. \A i \in 1..Len(m.players) :
              d.players[m.players[i].name].gold = x.players[m.players[i].name].gold
        BY <3>3, <3>6, <3>8 DEF SameGoldShown
      <4>3. \A i \in 1..Len(m.players) : x.players[m.players[i].name].gold =
               IF i = w THEN gold ELSE c.players[m.players[i].name].gold
        BY <3>3, <3>5, <4>1
      <4>. QED
        BY <2>5, <3>1, <3>9, <4>2, <4>3 DEF HasGold, Seen
    <3>11. HasAuctioneer(d, r)
      <4>1. r.currentAuctioneer = m.currentAuctioneer
        BY <1>2
      <4>. QED
        BY <3>1, <3>5, <3>6, <3>8, <3>9, <4>1 DEF HasAuctioneer, NameAt
    <3>12. Mirrors(d, r)
      BY <1>2, <3>1, <3>6, <3>8, <3>9, <3>10, <3>11 DEF Mirrors
    <3>. QED
      BY <3>2, <3>12
  <2>9. Carries(m, r)
    BY <2>6, <2>7, <2>8 DEF Carries
  <2>. QED
    BY <2>9 DEF r
<1>. QED
  BY <1>5, <1>6

LEMMA TurnEndCarries ==
    ASSUME NEW m, Playing(m), Staged(m), m.currentPhase = "TurnEnd"
    PROVE  Carries(m, OnTurnEndPhase(m))
<1>. DEFINE r == OnTurnEndPhase(m)
            ps == m.players
            qs == r.players
            es == Produced(ps)
            a == After(m) + 1
            e == Event("IsAuctioneer", NameAt(m, a), 0)
            new == [i \in 1..Len(ps) |-> ps[i].gold + TotalProduction(Hand(ps, i))]
<1>1. MatchType(m) /\ MatchType(r) /\ r.currentPhase = "TurnStart"
  BY TurnEndSound DEF Playing, Sound
<1>2. /\ r.currentAuctioneer = After(m) /\ a \in 1..Len(ps)
      /\ r.updateEvent = (m.updateEvent \o es) \o << e >>
      /\ r.deck = m.deck /\ r.discarded = m.discarded
      /\ r.cardsInAuction = m.cardsInAuction
      /\ Len(qs) = Len(ps)
      /\ \A i \in 1..Len(ps) :
           /\ qs[i].name = ps[i].name /\ Hand(qs, i) = Hand(ps, i)
           /\ qs[i].gold = ps[i].gold + TotalProduction(Hand(ps, i))
  BY TurnEndResult
<1>. HIDE DEF r
<1>3. SameOwned(ps, qs)
  BY <1>2 DEF SameOwned
<1>4. /\ ps \in Seq(PlayerType) /\ m.updateEvent \in Seq(Update) /\ Distinct(ps)
      /\ r.currentAuctioneer + 1 = a
  BY <1>1, <1>2 DEF MatchType, Staged
<1>5. /\ es \in Seq(Update) /\ Len(es) = Len(ps)
      /\ \A i \in 1..Len(ps) :
            es[i].type = "Earn" /\ es[i].nickname = ps[i].name
            /\ es[i].value = TotalProduction(Hand(ps, i))
  BY <1>4, ProducedType, EventSays
<1>6. /\ e.type = "IsAuctioneer" /\ e.nickname = ps[a].name /\ e \in Told
      /\ << e >> \in Seq(Update) /\ << e >> \in Seq(Told)
  <2>1. NameAt(m, a) \in Name
    BY <1>1, <1>2, NameIsTyped
  <2>2. e \in Update /\ << e >> \in Seq(Update)
    BY <2>1, EventIsUpdate DEF EventType
  <2>3. e.type = "IsAuctioneer" /\ e.nickname = ps[a].name
    BY EventSays DEF NameAt
  <2>4. << e >> \in Seq(Told)
    BY <2>2, UpdatesTold
  <2>. QED
    BY <2>2, <2>3, <2>4 DEF Told
<1>7. \A i \in 1..Len(ps) : new[i] = ps[i].gold + TotalProduction(Hand(ps, i))
  OBVIOUS
<1>. DEFINE one == << e >>
<1>. HIDE DEF es, e, a, new, one
<1>8. r.updateEvent = m.updateEvent \o (es \o one) /\ es \o one \in Seq(Update)
  <2>. DEFINE u == m.updateEvent
  <2>1. u \in Seq(Update) /\ one \in Seq(Update) /\ r.updateEvent = (u \o es) \o one
    BY <1>2, <1>4, <1>6 DEF one
  <2>. HIDE DEF u
  <2>2. (u \o es) \o one = u \o (es \o one) /\ es \o one \in Seq(Update)
    BY <1>5, <2>1, ThreeParts
  <2>3. r.updateEvent = u \o (es \o one)
    BY <2>1, <2>2, Zenon
  <2>. QED
    BY <2>2, <2>3 DEF u
<1>9. ASSUME NEW c, Mirrors(c, m) PROVE Mirrors(Reads(c, es \o one), r)
  <2>. DEFINE x == Reads(c, es)
              d == DispatchEvent(x, e)
  <2>1. /\ c \in Client /\ ~c.thrown
        /\ HasGold(c, m) /\ HasAuctioneer(c, m)
    BY <1>9 DEF Mirrors, Runs
  <2>2. \A i \in 1..Len(ps) : ps[i].name \in DOMAIN c.players
    BY <1>1, <1>9, NamesSeen
  <2>3. TellsAll(c, ps, es, new)
    BY <1>5, <1>7, <2>1, <2>2 DEF TellsAll, HasGold, Seen
  <2>4. /\ x \in Client /\ Kept(c, x) /\ x.auctioneer = c.auctioneer
        /\ \A i \in 1..Len(ps) : x.players[ps[i].name].gold = new[i]
    <3>. HIDE DEF ps
    <3>. QED
      BY <1>4, <1>5, <2>1, <2>3, GoldTold
  <2>5. Reads(c, es \o one) = d
    <3>1. es \in Seq(Told) /\ one \in Seq(Told) /\ e \in Told
      BY <1>5, <1>6, UpdatesTold DEF one
    <3>2. Reads(c, es \o one) = Reads(x, one)
      BY <2>1, <3>1, ReadsMore
    <3>3. Reads(x, << e >>) = d
      BY <2>4, <3>1, ReadsOne
    <3>. QED
      BY <3>2, <3>3 DEF one
  <2>. HIDE DEF x
  <2>6. ~x.thrown /\ e.nickname \in DOMAIN x.players
    BY <1>2, <1>6, <2>1, <2>2, <2>4 DEF Kept
  <2>7. d \in Client /\ Kept(x, d) /\ SameGoldShown(x, d) /\ d.auctioneer = e.nickname
    BY <1>6, <2>4, <2>6, AuctioneerMoves
  <2>. HIDE DEF d
  <2>8. Kept(c, d)
    BY <2>4, <2>7, KeptMore
  <2>9. HasGold(d, r)
    <3>1. \A i \in 1..Len(ps) : d.players[ps[i].name].gold = new[i]
      BY <2>2, <2>4, <2>7 DEF SameGoldShown, Kept
    <3>. QED
      BY <1>2, <1>7, <3>1 DEF HasGold, Seen
  <2>10. HasAuctioneer(d, r)
    BY <1>2, <1>4, <1>6, <2>7 DEF HasAuctioneer, NameAt
  <2>11. Tracked(m)
    BY DEF Tracked
  <2>12. Mirrors(d, r)
    BY <1>1, <1>2, <1>3, <1>9, <2>7, <2>8, <2>9, <2>10, <2>11, MirrorsKept
  <2>. QED
    BY <2>5, <2>12
<1>10. Carries(m, r)
  BY <1>8, <1>9 DEF Carries
<1>. QED
  BY <1>10 DEF r

LEMMA GameEndCarries ==
    ASSUME NEW m, Playing(m), Staged(m), m.currentPhase = "GameEnd"
    PROVE  Carries(m, OnGameEndPhase(m))
<1>. DEFINE r == OnGameEndPhase(m)
            es == Won(m)
<1>1. MatchType(m) /\ MatchType(r)
  BY GameEndSound DEF Playing, Sound
<1>2. /\ r.players = m.players /\ r.cardsInAuction = m.cardsInAuction
      /\ r.deck = m.deck /\ r.discarded = m.discarded
      /\ r.currentAuctioneer = m.currentAuctioneer
      /\ r.currentPhase = "Finished"
      /\ r.updateEvent = m.updateEvent \o es
  BY GameEndResult
<1>. HIDE DEF r
<1>3. es \in Seq(Update) /\ \A k \in 1..Len(es) : es[k].type = "Winner"
  BY <1>1, WonType, EventSays
<1>. HIDE DEF es
<1>4. SameHands(m.players, r.players) /\ SameGold(m.players, r.players)
  BY <1>2 DEF SameHands, SameCards, SameGold
<1>5. ~Tracked(r) /\ ~Runs(r)
  BY <1>2 DEF Tracked, Runs
<1>6. ASSUME NEW c, Mirrors(c, m) PROVE Mirrors(Reads(c, es), r)
  <2>1. Mirrors(c, r)
    BY <1>1, <1>2, <1>4, <1>5, <1>6, MirrorsSame
  <2>2. Reads(c, es) = c
    BY <1>3, <1>6, WinnersTold DEF Mirrors
  <2>. QED
    BY <2>1, <2>2
<1>7. Carries(m, r)
  BY <1>2, <1>3, <1>6 DEF Carries
<1>. QED
  BY <1>7 DEF r

LEMMA OnPhaseCarries ==
    ASSUME NEW m, Playing(m), Staged(m)
    PROVE  Carries(m, OnPhase(m))
<1>1. CASE Resting(m)
  <2>1. OnPhase(m) = m /\ MatchType(m)
    BY <1>1, RestingStays DEF Playing, Sound
  <2>. QED
    BY <2>1, CarriesNothing
<1>2. CASE ~Resting(m)
  <2>1. m.currentPhase \in {"TurnStart", "Attack", "Auction", "TurnEnd", "GameEnd"}
    BY <1>2 DEF MatchType, Phase, Resting, Playing, Sound
  <2>. QED
    BY <1>2, <2>1, PhaseMethod, TurnStartCarries, AttackCarries,
       AuctionCarries, TurnEndCarries, GameEndCarries
<1>. QED
  BY <1>1, <1>2

LEMMA ProcessPhaseCarries ==
    ASSUME NEW m, Playing(m), Staged(m)
    PROVE  /\ Carries(m, ProcessPhase(m)) /\ Staged(ProcessPhase(m))
           /\ ProcessPhase(m).currentPhase = "WaitForStart"
                => m.currentPhase = "WaitForStart"
<1>1. PICK m1, m2, m3, m4 :
        /\ m1 = OnPhase(m) /\ Playing(m1)
        /\ m2 = OnPhase(m1) /\ Playing(m2)
        /\ m3 = OnPhase(m2) /\ Playing(m3)
        /\ m4 = OnPhase(m3) /\ Playing(m4)
        /\ ProcessPhase(m) = OnPhase(m4)
  BY FivePhases
<1>. DEFINE r == ProcessPhase(m)
            Waits(x) == x.currentPhase = "WaitForStart"
<1>. HIDE DEF r
<1>2. /\ Staged(m1) /\ (Waits(m1) => Waits(m)) /\ Carries(m, m1)
  BY <1>1, StagedPhase, OnPhaseCarries
<1>3. Staged(m2) /\ (Waits(m2) => Waits(m1)) /\ Carries(m1, m2)
  BY <1>1, <1>2, StagedPhase, OnPhaseCarries
<1>4. Staged(m3) /\ (Waits(m3) => Waits(m2)) /\ Carries(m2, m3)
  BY <1>1, <1>3, StagedPhase, OnPhaseCarries
<1>5. Staged(m4) /\ (Waits(m4) => Waits(m3)) /\ Carries(m3, m4)
  BY <1>1, <1>4, StagedPhase, OnPhaseCarries
<1>6. Staged(r) /\ (Waits(r) => Waits(m4)) /\ Carries(m4, r)
  BY <1>1, <1>5, StagedPhase, OnPhaseCarries DEF r
<1>7. MatchType(m) /\ MatchType(m3)
  BY <1>1 DEF Playing, Sound
<1>8. Carries(m, r)
  BY <1>2, <1>3, <1>4, <1>5, <1>6, <1>7, CarriesMore
<1>. QED
  BY <1>2, <1>3, <1>4, <1>5, <1>6, <1>8 DEF r

-----------------------------------------------------------------------------
(* The calls to a MatchHandler.                                            *)

(* A match that starts does so after no event, or after an old Error.      *)
LEMMA GameStartCarries ==
    ASSUME NEW m, Sound(m), Undisputed(m), m.players # <<>>, Staged(m),
           m.currentPhase \in {"WaitForStart", "Finished"},
           NEW a \in 1..Len(m.players), NEW d \in Shuffles(m.deck)
    PROVE  LET r == OnGameStartPhase(m, a, d)
           IN  Carries(m, r) /\ Playing(r) /\ Staged(r)
<1>. DEFINE r == OnGameStartPhase(m, a, d)
            ps == m.players
            es == Granted(ps, a)
            e == Event("IsAuctioneer", NameAt(m, a), 0)
            new == [i \in 1..Len(ps) |-> StartingGold(i, a)]
<1>1. /\ MatchType(m) /\ ps \in Seq(PlayerType) /\ Distinct(ps) /\ Apart(m)
      /\ m.updateEvent \in Seq(Update) /\ m.deck \in Seq(Card)
  BY DEF Sound, MatchType, Staged
<1>2. /\ d \in Seq(Card) /\ Len(d) = Len(m.deck) /\ ToSet(d) = ToSet(m.deck)
  BY <1>1, DeckAssumption DEF Shuffles
<1>3. Playing(r) /\ r.currentPhase = "TurnStart"
  <2>1. a \in DOMAIN m.players
    BY <1>1
  <2>. QED
    BY <1>2, <2>1, GameStartSound
<1>4. MatchType(r)
  BY <1>3 DEF Playing, Sound
<1>5. /\ SameHands(ps, r.players)
      /\ r.deck = d /\ r.discarded = m.discarded
      /\ r.cardsInAuction = m.cardsInAuction /\ r.currentAuctioneer = a - 1
      /\ \A i \in 1..Len(ps) : r.players[i].gold = StartingGold(i, a)
      /\ r.updateEvent = m.updateEvent \o (<< e >> \o es)
  <2>1. /\ SameHands(ps, r.players)
        /\ r.deck = d /\ r.discarded = m.discarded
        /\ r.cardsInAuction = m.cardsInAuction /\ r.currentAuctioneer = a - 1
        /\ \A i \in 1..Len(ps) : r.players[i].gold = StartingGold(i, a)
        /\ r.updateEvent = m.updateEvent \o Opening(m, a)
    BY <1>1, GameStartResult
  <2>2. Opening(m, a) = << e >> \o es
    BY DEF Opening
  <2>. HIDE DEF r, e, es
  <2>. QED
    BY <2>1, <2>2
<1>6. Staged(r)
  <2>1. Keeps(m, r)
    BY <1>1, GameStartKeeps
  <2>2. Distinct(r.players) /\ Apart(r)
    BY <1>1, <1>4, <2>1, KeepsNames DEF Keeps
  <2>3. m.cardsInAuction = <<>>
    BY DEF Staged
  <2>. HIDE DEF r
  <2>. QED
    BY <1>3, <1>5, <2>2, <2>3 DEF Staged
<1>. HIDE DEF r
<1>7. Tracked(r) => Tracked(m)
  <2>1. CanDraw(d) <=> CanDraw(m.deck)
    BY <1>2 DEF CanDraw
  <2>. QED
    BY <1>3, <1>5, <2>1 DEF Tracked, Staged
<1>8. /\ e.type = "IsAuctioneer" /\ e.nickname = ps[a].name /\ e \in Told
      /\ << e >> \in Seq(Update) /\ << e >> \in Seq(Told)
  <2>1. NameAt(m, a) \in Name
    BY <1>1, NameIsTyped
  <2>2. e \in Update /\ << e >> \in Seq(Update)
    BY <2>1, EventIsUpdate DEF EventType
  <2>3. e.type = "IsAuctioneer" /\ e.nickname = ps[a].name
    BY EventSays DEF NameAt
  <2>4. << e >> \in Seq(Told)
    BY <2>2, UpdatesTold
  <2>. QED
    BY <2>2, <2>3, <2>4 DEF Told
<1>9. /\ es \in Seq(Update) /\ Len(es) = Len(ps) /\ es \in Seq(Told)
      /\ \A i \in 1..Len(ps) :
            es[i].type = "SetGold" /\ es[i].nickname = ps[i].name
            /\ es[i].value = StartingGold(i, a)
  <2>1. /\ es \in Seq(Update) /\ Len(es) = Len(ps)
        /\ \A i \in 1..Len(ps) :
              es[i] = Event("SetGold", ps[i].name, StartingGold(i, a))
    BY <1>1, GrantedType
  <2>. HIDE DEF es
  <2>. QED
    BY <2>1, EventSays, UpdatesTold
<1>10. \A i \in 1..Len(ps) : new[i] = StartingGold(i, a)
  OBVIOUS
<1>. DEFINE one == << e >>
<1>. HIDE DEF es, e, new, one
<1>11. /\ one \o es \in Seq(Update) /\ r.updateEvent = m.updateEvent \o (one \o es)
       /\ one \in Seq(Told)
  <2>1. one \in Seq(Update) /\ one \in Seq(Told)
    BY <1>8 DEF one
  <2>2. one \o es \in Seq(Update)
    BY <1>9, <2>1, ThreeParts
  <2>. QED
    BY <1>5, <2>1, <2>2 DEF one
<1>12. ASSUME NEW c, Mirrors(c, m) PROVE Mirrors(Reads(c, one \o es), r)
  <2>. DEFINE x == DispatchEvent(c, e)
              y == Reads(x, es)
  <2>1. c \in Client /\ ~c.thrown
    BY <1>12 DEF Mirrors
  <2>2. \A i \in 1..Len(ps) : ps[i].name \in DOMAIN c.players
    BY <1>1, <1>12, NamesSeen
  <2>3. x \in Client /\ Kept(c, x) /\ x.auctioneer = ps[a].name
    BY <1>8, <2>1, <2>2, AuctioneerMoves
  <2>4. Reads(c, one \o es) = y
    <3>1. Reads(c, one \o es) = Reads(Reads(c, one), es)
      BY <1>9, <1>11, <2>1, ReadsMore
    <3>2. Reads(c, one) = x
      BY <1>8, <2>1, ReadsOne DEF one
    <3>. QED
      BY <3>1, <3>2
  <2>. HIDE DEF x
  <2>5. TellsAll(x, ps, es, new) /\ ~x.thrown
    BY <1>9, <1>10, <2>1, <2>2, <2>3 DEF TellsAll, Kept
  <2>6. /\ y \in Client /\ Kept(x, y) /\ y.auctioneer = x.auctioneer
        /\ \A i \in 1..Len(ps) : y.players[ps[i].name].gold = new[i]
    <3>. HIDE DEF ps
    <3>. QED
      BY <1>1, <1>9, <2>3, <2>5, GoldTold
  <2>. HIDE DEF y
  <2>7. Kept(c, y)
    BY <2>3, <2>6, KeptMore
  <2>8. SameOwned(ps, r.players)
    BY <1>5, HandsAreOwned
  <2>9. HasGold(y, r)
    BY <1>5, <1>10, <2>6, <2>8 DEF HasGold, Seen, SameOwned
  <2>10. HasAuctioneer(y, r)
    <3>1. r.currentAuctioneer + 1 = a
      BY <1>1, <1>5
    <3>. QED
      BY <2>3, <2>6, <2>8, <3>1 DEF HasAuctioneer, NameAt, SameOwned
  <2>11. Mirrors(y, r)
    BY <1>1, <1>2, <1>4, <1>5, <1>7, <1>12, <2>6, <2>7, <2>8, <2>9, <2>10, MirrorsKept
  <2>. QED
    BY <2>4, <2>11
<1>13. Carries(m, r)
  BY <1>11, <1>12 DEF Carries
<1>. QED
  BY <1>3, <1>6, <1>13 DEF r

LEMMA CarriesReads ==
    ASSUME NEW m, MatchType(m), NEW r, Carries(m, r), NEW c, Mirrors(c, m),
           Reads(c, m.updateEvent) = c
    PROVE  Mirrors(Reads(c, r.updateEvent), r)
<1>1. PICK es \in Seq(Update) :
        /\ r.updateEvent = m.updateEvent \o es
        /\ \A x : Mirrors(x, m) => Mirrors(Reads(x, es), r)
  BY DEF Carries
<1>. DEFINE u == m.updateEvent
<1>2. u \in Seq(Told) /\ es \in Seq(Told) /\ c \in Client
  BY UpdatesTold DEF MatchType, Mirrors
<1>3. Reads(c, u) = c
  OBVIOUS
<1>. HIDE DEF u
<1>4. Reads(c, u \o es) = Reads(Reads(c, u), es)
  BY <1>2, ReadsMore
<1>5. r.updateEvent = u \o es
  BY <1>1 DEF u
<1>. QED
  BY <1>1, <1>3, <1>4, <1>5

LEMMA ErrorRead ==
    ASSUME NEW c \in Client, ~c.thrown
    PROVE  Reads(c, Error) = c
<1>1. Error \in Seq(Update) /\ \A k \in 1..Len(Error) : Error[k].type = "Error"
  BY EventIsUpdate, EventSays DEF Error, EventType
<1>. QED
  BY <1>1, WinnersTold

(* Between two calls a match waits for its players, or for its start.      *)
AtRest(m) == m.currentPhase \in {"WaitForStart", "Attack", "Auction", "Finished"}

LEMMA RestingRests ==
    ASSUME NEW m, Sound(m), Resting(m)
    PROVE  AtRest(m)
  BY DEF Sound, Resting, AtRest

LEMMA StartMirrors ==
    ASSUME NEW m, Sound(m), Undisputed(m), m.players # <<>>, Staged(m),
           m.currentPhase \in {"WaitForStart", "Finished"}, NEW r \in Starts(m)
    PROVE  /\ Staged(r) /\ AtRest(r)
           /\ \A c : Mirrors(c, m) => Mirrors(Reads(c, r.updateEvent), r)
<1>. DEFINE n == [m EXCEPT !.updateEvent = MovedFrom(m.updateEvent)]
<1>1. MatchType(m)
  BY DEF Sound
<1>2. MatchType(n) /\ n.fault = m.fault /\ n.players = m.players
      /\ n.currentPhase = m.currentPhase /\ n.currentOffer = m.currentOffer
      /\ n.cardsInAuction = m.cardsInAuction
      /\ n.currentAttack = m.currentAttack
      /\ n.deck = m.deck /\ n.discarded = m.discarded
      /\ n.currentAuctioneer = m.currentAuctioneer
      /\ n.updateEvent = MovedFrom(m.updateEvent)
  <2>1. MovedFrom(m.updateEvent) \in Seq(Update)
    BY <1>1 DEF MatchType, MovedFrom
  <2>. QED
    BY <1>1, <2>1 DEF MatchType
<1>3. PICK a \in DOMAIN m.players, d \in Shuffles(m.deck) :
        r = ProcessPhase(OnGameStartPhase(n, a, d))
  BY DEF Starts
<1>. HIDE DEF n
<1>4. Sound(n) /\ Undisputed(n)
  BY <1>2 DEF Sound, Covered, Undisputed
<1>5. Keeps(m, n)
  BY <1>2, NothingMoves DEF SameHands, SameCards
<1>6. Staged(n)
  BY <1>2, <1>5 DEF Staged, Keeps
<1>. DEFINE g == OnGameStartPhase(n, a, d)
<1>7. Carries(n, g) /\ Playing(g) /\ Staged(g)
  <2>1. a \in 1..Len(n.players)
    BY <1>1, <1>2 DEF MatchType
  <2>. QED
    BY <1>2, <1>4, <1>6, <2>1, GameStartCarries
<1>. HIDE DEF g
<1>8. r = ProcessPhase(g)
  BY <1>3 DEF g
<1>9. Carries(g, r) /\ Staged(r)
  BY <1>7, <1>8, ProcessPhaseCarries
<1>10. Carries(n, r)
  BY <1>2, <1>7, <1>9, CarriesMore
<1>11. AtRest(r)
  BY <1>7, <1>8, ProcessPhaseSound, RestingRests DEF Playing
<1>12. ASSUME NEW c, Mirrors(c, m) PROVE Mirrors(Reads(c, r.updateEvent), r)
  <2>1. SameHands(m.players, n.players) /\ SameGold(m.players, n.players)
    BY <1>2 DEF SameHands, SameCards, SameGold
  <2>2. (Tracked(n) => Tracked(m)) /\ (Runs(n) => Runs(m))
    BY <1>2 DEF Tracked, Runs
  <2>3. Mirrors(c, n)
    BY <1>1, <1>2, <1>12, <2>1, <2>2, MirrorsSame
  <2>4. Reads(c, n.updateEvent) = c
    <3>1. c \in Client /\ ~c.thrown
      BY <1>12 DEF Mirrors
    <3>2. CASE m.updateEvent = Error
      BY <1>2, <3>1, <3>2, ErrorRead DEF MovedFrom
    <3>3. CASE m.updateEvent # Error
      BY <1>2, <3>3, ReadsNothing DEF MovedFrom
    <3>. QED
      BY <3>2, <3>3
  <2>. QED
    BY <1>2, <1>10, <2>3, <2>4, CarriesReads
<1>. QED
  BY <1>9, <1>11, <1>12

(* No card has no force.                                                   *)
LEMMA NoForce == TotalAttack({}) = 0
<1>. DEFINE Rec(it) == it = [s \in SUBSET {} |->
                          IF s = {} THEN 0
                          ELSE LET x == CHOOSE y \in s : TRUE
                               IN  GetAttack(x) + it[s \ {x}]]
            iter == CHOOSE it : Rec(it)
            g == [s \in SUBSET {} |-> 0]
<1>1. TotalAttack({}) = iter[{}]
  BY Zenon DEF TotalAttack, MapThenSumSet, MapThenFoldSet
<1>2. \A s \in SUBSET {} : s = {}
  OBVIOUS
<1>3. Rec(g)
  BY <1>2
<1>4. Rec(iter)
  <2>. HIDE DEF Rec
  <2>. QED
    BY <1>3
<1>. HIDE DEF iter
<1>. QED
  BY <1>1, <1>4

LEMMA HandledMirrors ==
    ASSUME NEW m, Sound(m), Staged(m), NEW r, Handled(m, r)
    PROVE  /\ Staged(r) /\ (AtRest(m) => AtRest(r))
           /\ \A c : Mirrors(c, m) =>
                IF r.updateEvent = Error
                THEN Mirrors(c, r) /\ Reads(c, Error) = c
                ELSE Mirrors(Reads(c, r.updateEvent), r)
<1>1. MatchType(m)
  BY DEF Sound
<1>2. ASSUME r = SetError(m)
      PROVE  /\ Staged(r) /\ (AtRest(m) => AtRest(r)) /\ r.updateEvent = Error
             /\ \A c : Mirrors(c, m) => Mirrors(c, r)
  <2>1. /\ r.players = m.players /\ r.deck = m.deck /\ r.updateEvent = Error
        /\ r.discarded = m.discarded /\ r.cardsInAuction = m.cardsInAuction
        /\ r.currentAuctioneer = m.currentAuctioneer
        /\ r.currentPhase = m.currentPhase
    BY <1>1, <1>2 DEF SetError, MatchType
  <2>2. MatchType(r)
    BY <1>2, SetErrorSound DEF Sound
  <2>3. SameHands(m.players, r.players) /\ SameGold(m.players, r.players)
    BY <2>1 DEF SameHands, SameCards, SameGold
  <2>4. (Tracked(r) => Tracked(m)) /\ (Runs(r) => Runs(m))
    BY <2>1 DEF Tracked, Runs
  <2>5. \A c : Mirrors(c, m) => Mirrors(c, r)
    BY <1>1, <2>1, <2>2, <2>3, <2>4, MirrorsSame
  <2>6. Keeps(m, r)
    BY <2>1, <2>3, NothingMoves
  <2>. QED
    BY <2>1, <2>5, <2>6 DEF Staged, Keeps, AtRest
<1>3. ASSUME NEW b, Bids(m, b), r = ProcessPhase(b)
      PROVE  /\ Staged(r) /\ AtRest(r)
             /\ \A c : Mirrors(c, m) => Mirrors(Reads(c, r.updateEvent), r)
  <2>1. /\ Playing(b) /\ MatchType(b) /\ b.currentPhase = m.currentPhase
        /\ SameHands(m.players, b.players) /\ SameGold(m.players, b.players)
        /\ b.deck = m.deck /\ b.cardsInAuction = m.cardsInAuction
        /\ b.discarded = m.discarded /\ b.currentAuctioneer = m.currentAuctioneer
        /\ m.currentPhase \in {"Attack", "Auction"}
    BY <1>3 DEF Bids, Playing, Sound
  <2>2. Staged(b)
    <3>1. Keeps(m, b)
      BY <2>1, NothingMoves
    <3>2. Distinct(b.players) /\ Apart(b)
      BY <1>1, <2>1, <3>1, KeepsNames DEF Staged, Keeps
    <3>. QED
      BY <2>1, <3>2 DEF Staged
  <2>3. Carries(b, r) /\ Staged(r)
    BY <1>3, <2>1, <2>2, ProcessPhaseCarries
  <2>4. AtRest(r)
    BY <1>3, <2>1, ProcessPhaseSound, RestingRests DEF Playing
  <2>5. PICK i \in 1..Len(m.players) : Says(m, b, i)
    BY <1>3 DEF Bids
  <2>6. PICK type \in {"Attack", "Offer", "Pass"}, gold \in Nat :
          /\ b.updateEvent = << Event(type, NameAt(m, i), gold) >>
          /\ type = "Attack" => m.currentPhase = "Attack" /\ Raises(m, b, i)
    BY <2>5 DEF Says
  <2>. DEFINE e == Event(type, NameAt(m, i), gold)
  <2>7. e.type = type /\ e.nickname = m.players[i].name /\ e \in Told
    <3>1. NameAt(m, i) \in Name
      BY <1>1, NameIsTyped
    <3>2. e \in Update
      BY <3>1, EventIsUpdate DEF EventType
    <3>3. e.type = type /\ e.nickname = NameAt(m, i)
      BY EventSays
    <3>. QED
      BY <3>2, <3>3 DEF NameAt, Told
  <2>. HIDE DEF e
  <2>8. ASSUME NEW c, Mirrors(c, m) PROVE Mirrors(Reads(c, r.updateEvent), r)
    <3>1. (Tracked(b) => Tracked(m)) /\ (Runs(b) => Runs(m)) /\ Tracked(m)
      BY <2>1 DEF Tracked, Runs
    <3>2. Mirrors(c, b)
      BY <1>1, <2>1, <2>8, <3>1, MirrorsSame
    <3>3. c \in Client /\ ~c.thrown /\ HasCards(c, m)
      BY <2>8, <3>1 DEF Mirrors
    <3>4. e.nickname \in DOMAIN c.players
      BY <1>1, <2>7, <2>8, NamesSeen
    <3>5. ASSUME type = "Attack" PROVE c.players[e.nickname].cards # <<>>
      <4>1. TotalAttack(m.players[i].activeCards) > m.currentAttack
        BY <2>1, <2>6, <3>5 DEF Raises, BidOn
      <4>2. m.currentAttack \in Nat
        BY <1>1 DEF MatchType
      <4>3. m.players[i].activeCards # {}
        <5>. DEFINE cards == m.players[i].activeCards
                    bid == m.currentAttack
        <5>. HIDE DEF cards, bid
        <5>1. TotalAttack(cards) > bid /\ bid \in Nat
          BY <4>1, <4>2 DEF cards, bid
        <5>2. ASSUME cards = {} PROVE TotalAttack(cards) = 0
          BY <5>2, NoForce, Zenon
        <5>3. cards # {}
          BY <5>1, <5>2
        <5>. QED
          BY <5>3 DEF cards
      <4>4. Hand(m.players, i) # {}
        BY <4>3 DEF Hand, Owned
      <4>. QED
        BY <2>7, <3>3, <4>4 DEF HasCards, Seen
    <3>6. DispatchEvent(c, e) = c
      BY <2>7, <3>3, <3>4, <3>5, NothingShown
    <3>7. Reads(c, b.updateEvent) = c
      BY <2>6, <2>7, <3>3, <3>6, ReadsOne DEF e
    <3>. QED
      BY <2>1, <2>3, <3>2, <3>7, CarriesReads
  <2>. QED
    BY <2>3, <2>4, <2>8
<1>4. r.updateEvent = Error => r = SetError(m)
  BY HandledSays
<1>5. ASSUME NEW c, Mirrors(c, m) PROVE Reads(c, Error) = c
  BY <1>5, ErrorRead DEF Mirrors
<1>6. CASE r = SetError(m)
  BY <1>2, <1>5, <1>6
<1>7. CASE r # SetError(m)
  BY <1>3, <1>4, <1>7 DEF Handled
<1>. QED
  BY <1>6, <1>7

LEMMA EmptyPile == IsInjective(<<>>) /\ ToSet(<<>>) = {}
  BY DEF IsInjective, ToSet

(* What a new player changes of a match that waits or has ended.           *)
LEMMA AddPlayerResult ==
    ASSUME NEW m, Sound(m), m.currentPhase \in {"WaitForStart", "Finished"},
           NEW n \in Name, n \notin NamesOf(m)
    PROVE  LET r == AddPlayer(m, n)
           IN  /\ MatchType(r) /\ r.currentPhase = m.currentPhase
               /\ r.deck = m.deck /\ r.cardsInAuction = m.cardsInAuction
               /\ r.discarded = m.discarded
               /\ \A i \in 1..Len(m.players) : m.players[i].name # n
               /\ \A i \in 1..Len(r.players) :
                    \/ i \in 1..Len(m.players) /\ r.players[i] = m.players[i]
                    \/ r.players[i].name = n /\ Hand(r.players, i) = {}
<1>. DEFINE ps == m.players
            qs == Append(ps, NewPlayer(n))
            r == AddPlayer(m, n)
<1>1. MatchType(m) /\ MatchType(r)
  BY AddPlayerSound DEF Sound
<1>2. ps \in Seq(PlayerType) /\ Len(ps) \in Nat
  BY <1>1 DEF MatchType
<1>3. r.players = qs /\ r.deck = m.deck /\ r.discarded = m.discarded
      /\ r.cardsInAuction = m.cardsInAuction /\ r.currentPhase = m.currentPhase
  BY <1>1 DEF MatchType, AddPlayer
<1>4. NamesOf(m) = {m.players[i].name : i \in 1..Len(m.players)}
  BY <1>1, NamesByPosition
<1>5. \A i \in 1..Len(m.players) : m.players[i].name # n
  BY <1>4
<1>. HIDE DEF r, ps
<1>6. /\ Len(qs) = Len(ps) + 1
      /\ \A i \in 1..Len(ps) : qs[i] = ps[i]
      /\ qs[Len(ps) + 1] = NewPlayer(n)
  BY <1>2, NewPlayerType, AppendProperties
<1>. HIDE DEF qs
<1>7. \A i \in 1..Len(qs) : i \in 1..Len(ps) \/ i = Len(ps) + 1
  BY <1>2, <1>6
<1>8. qs[Len(ps) + 1].name = n /\ Hand(qs, Len(ps) + 1) = {}
  BY <1>6 DEF NewPlayer, Hand, Owned
<1>9. \A i \in 1..Len(r.players) :
         \/ i \in 1..Len(m.players) /\ r.players[i] = m.players[i]
         \/ r.players[i].name = n /\ Hand(r.players, i) = {}
  BY <1>3, <1>6, <1>7, <1>8 DEF ps
<1>. QED
  BY <1>1, <1>3, <1>5, <1>9 DEF r

LEMMA AddPlayerStaged ==
    ASSUME NEW m, Sound(m), m.currentPhase \in {"WaitForStart", "Finished"},
           Staged(m), NEW n \in Name, n \notin NamesOf(m)
    PROVE  Staged(AddPlayer(m, n)) /\ AtRest(AddPlayer(m, n))
<1>. DEFINE r == AddPlayer(m, n)
<1>1. /\ r.currentPhase = m.currentPhase
      /\ r.deck = m.deck /\ r.cardsInAuction = m.cardsInAuction
      /\ \A i \in 1..Len(m.players) : m.players[i].name # n
      /\ \A i \in 1..Len(r.players) :
           \/ i \in 1..Len(m.players) /\ r.players[i] = m.players[i]
           \/ r.players[i].name = n /\ Hand(r.players, i) = {}
  BY AddPlayerResult
<1>2. Apart(r) /\ Distinct(r.players)
  BY <1>1, AddPlayerKeeps DEF Staged, Sound
<1>. HIDE DEF r
<1>3. r.currentPhase = "WaitForStart" =>
         \A i \in 1..Len(r.players) : Hand(r.players, i) = {}
  BY <1>1 DEF Staged, Hand
<1>4. Staged(r) /\ AtRest(r)
  BY <1>1, <1>2, <1>3 DEF Staged, AtRest
<1>. QED
  BY <1>4 DEF r

(* Those who are in the match are told of the one who comes.               *)
LEMMA JoinMirrors ==
    ASSUME NEW m, Sound(m), m.currentPhase \in {"WaitForStart", "Finished"},
           Staged(m), NEW n \in Name, n \notin NamesOf(m), NEW c, Mirrors(c, m)
    PROVE  Mirrors(Reads(c, JoinMatchResult(n)), AddPlayer(m, n))
<1>. DEFINE r == AddPlayer(m, n)
            e == Event("JoinMatchResult", n, 0)
            d == DispatchEvent(c, e)
<1>1. /\ MatchType(m) /\ MatchType(r) /\ r.currentPhase = m.currentPhase
      /\ r.deck = m.deck /\ r.cardsInAuction = m.cardsInAuction
      /\ r.discarded = m.discarded
      /\ \A i \in 1..Len(m.players) : m.players[i].name # n
      /\ \A i \in 1..Len(r.players) :
           \/ i \in 1..Len(m.players) /\ r.players[i] = m.players[i]
           \/ r.players[i].name = n /\ Hand(r.players, i) = {}
  BY AddPlayerResult DEF Sound
<1>2. NamesOf(r) = NamesOf(m) \cup {n}
  BY <1>1, AddPlayerNames
<1>3. e.type = "JoinMatchResult" /\ e.nickname = n /\ e \in Told /\ n \in Nick
  <2>1. e \in Update
    BY EventIsUpdate DEF EventType
  <2>2. e.type = "JoinMatchResult" /\ e.nickname = n
    BY EventSays
  <2>. QED
    BY <2>1, <2>2 DEF Told, Nick
<1>. HIDE DEF r, e
<1>4. c \in Client /\ ~c.thrown /\ NamesOf(m) \subseteq DOMAIN c.players
  BY DEF Mirrors
<1>5. Reads(c, JoinMatchResult(n)) = d
  BY <1>3, <1>4, ReadsOne DEF JoinMatchResult, e
<1>6. /\ d \in Client /\ d.deck = c.deck /\ d.auctioneer = c.auctioneer
      /\ ~d.thrown /\ d.inPlay = c.inPlay
      /\ DOMAIN d.players = DOMAIN c.players \cup {n}
      /\ d.players[n].cards = <<>>
      /\ \A k \in DOMAIN c.players : k # n => d.players[k] = c.players[k]
  BY <1>3, <1>4, PlayerMoves
<1>. HIDE DEF d
<1>7. \A i \in 1..Len(m.players) :
         m.players[i].name \in DOMAIN c.players /\ m.players[i].name # n
  BY <1>1, NamesSeen
<1>8. ~Runs(r) /\ (Tracked(r) => Tracked(m))
  BY <1>1 DEF Runs, Tracked
<1>9. ASSUME HasCards(c, m) PROVE HasCards(d, r)
  <2>1. ASSUME NEW i \in 1..Len(r.players)
        PROVE  \/ /\ i \in 1..Len(m.players) /\ Hand(r.players, i) = Hand(m.players, i)
                  /\ Seen(d, r, i).cards = Seen(c, m, i).cards
               \/ Hand(r.players, i) = {} /\ Seen(d, r, i).cards = <<>>
    <3>1. CASE i \in 1..Len(m.players) /\ r.players[i] = m.players[i]
      BY <1>6, <1>7, <3>1 DEF Seen, Hand
    <3>2. CASE r.players[i].name = n /\ Hand(r.players, i) = {}
      BY <1>6, <3>2 DEF Seen
    <3>. QED
      BY <1>1, <3>1, <3>2
  <2>. QED
    BY <1>1, <1>6, <1>9, <2>1, EmptyPile DEF HasCards
<1>10. Mirrors(d, r)
  BY <1>1, <1>2, <1>4, <1>6, <1>8, <1>9 DEF Mirrors
<1>. QED
  BY <1>5, <1>10 DEF r

(* The one who comes is told of the match.                                 *)
LEMMA InfoMirrors ==
    ASSUME NEW m, Sound(m), m.currentPhase \in {"WaitForStart", "Finished"},
           Staged(m), NEW c \in Client, ~c.thrown
    PROVE  Mirrors(Reads(c, MatchInfo(m)), m) /\ MatchInfo(m) \in Seq(Told)
<1>. DEFINE names == [i \in DOMAIN m.players |-> NameAt(m, i)]
            e == [type |-> "MatchInfo", players |-> names, deck |-> m.deck]
            d == DispatchEvent(c, e)
<1>1. MatchType(m) /\ DOMAIN m.players = 1..Len(m.players) /\ Len(m.players) \in Nat
  BY DEF Sound, MatchType
<1>2. names \in Seq(Name)
  BY <1>1, NameIsTyped, IsASeq
<1>3. e \in Info
  <2>1. m.deck \in Seq(Card)
    BY <1>1 DEF MatchType
  <2>. HIDE DEF names
  <2>. QED
    BY <1>2, <2>1 DEF Info
<1>4. e.players = names /\ e.deck = m.deck
  OBVIOUS
<1>5. ToSet(names) = NamesOf(m)
  BY <1>1 DEF ToSet, NamesOf
<1>6. MatchInfo(m) = << e >>
  BY DEF MatchInfo, MatchInfoOf
<1>. HIDE DEF e, names
<1>7. e \in Told /\ << e >> \in Seq(Told)
  BY <1>3 DEF Told
<1>8. Reads(c, MatchInfo(m)) = d
  BY <1>6, <1>7, ReadsOne
<1>9. /\ d \in Client /\ d.deck = ToSet(m.deck) /\ ~d.thrown
      /\ d.inPlay = <<>> /\ DOMAIN d.players = NamesOf(m)
      /\ \A k \in DOMAIN d.players : d.players[k].cards = <<>>
  BY <1>3, <1>4, <1>5, InfoMoves
<1>. HIDE DEF d
<1>10. m.cardsInAuction = <<>>
  BY DEF Staged
<1>11. \A i \in 1..Len(m.players) : Seen(d, m, i).cards = <<>>
  <2>1. NamesOf(m) = {m.players[i].name : i \in 1..Len(m.players)}
    BY <1>1, NamesByPosition
  <2>. QED
    BY <1>9, <2>1 DEF Seen
<1>12. Tracked(m) => HasCards(d, m)
  <2>1. Tracked(m) => \A i \in 1..Len(m.players) : Hand(m.players, i) = {}
    BY DEF Tracked, Staged
  <2>. QED
    BY <1>9, <1>10, <1>11, <2>1, EmptyPile DEF HasCards
<1>13. ~Runs(m)
  BY DEF Runs
<1>14. Len(m.cardsInAuction) <= Len(d.inPlay)
  BY <1>9, <1>10
<1>15. Mirrors(d, m)
  BY <1>9, <1>12, <1>13, <1>14 DEF Mirrors
<1>. QED
  BY <1>6, <1>7, <1>8, <1>15

(* Nobody is told of the one who leaves.                                   *)
LEMMA LeaveMirrors ==
    ASSUME NEW m, Sound(m), Staged(m), NEW n, IsPlayer(m, n)
    PROVE  LET r == RemovePlayer(m, n)
           IN  /\ Staged(r) /\ (AtRest(m) => AtRest(r))
               /\ \A c : Mirrors(c, m) => Mirrors(c, r)
<1>. DEFINE k == GetPlayerIndex(m, n)
            ps == m.players
            qs == RemoveAt(ps, k)
            r == RemovePlayer(m, n)
            From(j) == IF j < k THEN j ELSE j + 1
<1>1. MatchType(m) /\ Distinct(ps)
  BY DEF Sound, Staged
<1>2. ps \in Seq(PlayerType) /\ k \in 1..Len(ps) /\ ps[k].name = n
  BY <1>1, PlayerIndex DEF MatchType, NameAt
<1>3. r.players = qs /\ r.deck = m.deck /\ r.discarded = m.discarded
      /\ r.cardsInAuction = m.cardsInAuction /\ r.currentPhase = m.currentPhase
  BY <1>1 DEF RemovePlayer, MatchType
<1>4. NamesOf(r) = NamesOf(m) \ {n}
  BY <1>1, RemovePlayerNames
<1>5. Apart(r) /\ Distinct(r.players)
  BY <1>1, RemovePlayerKeeps DEF Staged
<1>. HIDE DEF r, k, ps
<1>6. \A j \in 1..Len(qs) : From(j) \in 1..Len(ps) /\ qs[j] = ps[From(j)]
  BY <1>2, RemovedAt, SMTT(60)
<1>. HIDE DEF qs, From
<1>7. \A j \in 1..Len(r.players) :
         \E i \in 1..Len(m.players) : r.players[j] = m.players[i]
  BY <1>3, <1>6 DEF ps
<1>8. \A j \in 1..Len(r.players) : \E i \in 1..Len(m.players) :
         /\ r.players[j].gold = m.players[i].gold
         /\ Hand(r.players, j) = Hand(m.players, i)
         /\ \A c : Seen(c, r, j) = Seen(c, m, i)
  BY <1>7 DEF Hand, Seen
<1>9. Staged(r)
  BY <1>3, <1>5, <1>8 DEF Staged
<1>10. ASSUME NEW c, Mirrors(c, m) PROVE Mirrors(c, r)
  <2>1. n \in NamesOf(m)
    BY DEF IsPlayer, NamesOf
  <2>2. DOMAIN c.players # NamesOf(r)
    BY <1>4, <1>10, <2>1 DEF Mirrors
  <2>3. HasAuctioneer(c, r)
    BY <2>2 DEF HasAuctioneer
  <2>4. HasGold(c, m) => HasGold(c, r)
    BY <1>8 DEF HasGold
  <2>5. HasCards(c, m) => HasCards(c, r)
    BY <1>3, <1>8 DEF HasCards
  <2>6. (Tracked(r) => Tracked(m)) /\ (Runs(r) => Runs(m))
    BY <1>3 DEF Tracked, Runs
  <2>. QED
    BY <1>3, <1>4, <1>10, <2>3, <2>4, <2>5, <2>6 DEF Mirrors
<1>11. AtRest(m) => AtRest(r)
  BY <1>3 DEF AtRest
<1>. QED
  BY <1>9, <1>10, <1>11 DEF r

-----------------------------------------------------------------------------
(* What a call sends to one client.                                        *)

(* The messages of one call, one after the other.                          *)
LEMMA FlattenNone == FlattenSeq(<<>>) = <<>>
  BY DEF FlattenSeq

LEMMA FlattenOne ==
    ASSUME NEW s
    PROVE  FlattenSeq(<< s >>) = s
<1>. DEFINE seqs == << s >>
            Rec(it) == it = [i \in 1..Len(seqs) |->
                          IF i = 1 THEN seqs[i] ELSE it[i - 1] \o seqs[i]]
            iter == CHOOSE it : Rec(it)
            g == [i \in 1..1 |-> s]
<1>1. Len(seqs) = 1 /\ seqs[1] = s
  OBVIOUS
<1>2. FlattenSeq(seqs) = iter[1]
  <2>. HIDE DEF seqs
  <2>. QED
    BY <1>1 DEF FlattenSeq
<1>. HIDE DEF seqs
<1>3. Rec(g)
  <2>1. \A i \in 1..1 : i = 1
    OBVIOUS
  <2>. QED
    BY <1>1, <2>1
<1>4. Rec(iter)
  <2>. HIDE DEF Rec
  <2>. QED
    BY <1>3
<1>5. iter[1] = s
  <2>. HIDE DEF iter
  <2>. QED
    BY <1>1, <1>4
<1>. QED
  BY <1>2, <1>5 DEF seqs

LEMMA FlattenTwo ==
    ASSUME NEW s, NEW t
    PROVE  FlattenSeq(<< s, t >>) = s \o t
<1>. DEFINE seqs == << s, t >>
            Rec(it) == it = [i \in 1..Len(seqs) |->
                          IF i = 1 THEN seqs[i] ELSE it[i - 1] \o seqs[i]]
            iter == CHOOSE it : Rec(it)
            both == s \o t
            g == [i \in 1..2 |-> IF i = 1 THEN s ELSE both]
<1>1. Len(seqs) = 2 /\ seqs[1] = s /\ seqs[2] = t
  OBVIOUS
<1>2. FlattenSeq(seqs) = iter[2]
  <2>. HIDE DEF seqs
  <2>. QED
    BY <1>1 DEF FlattenSeq
<1>. HIDE DEF seqs
<1>3. Rec(g)
  <2>1. \A i \in 1..2 : i = 1 \/ i = 2
    OBVIOUS
  <2>2. g[1] = s /\ g[1] \o seqs[2] = both
    BY <1>1
  <2>. HIDE DEF both
  <2>3. \A i \in 1..2 : g[i] = IF i = 1 THEN seqs[i] ELSE g[i - 1] \o seqs[i]
    <3>1. g[1] = seqs[1] /\ g[2] = g[2 - 1] \o seqs[2]
      BY <1>1, <2>2
    <3>. HIDE DEF g
    <3>. QED
      BY <2>1, <3>1
  <2>. QED
    BY <1>1, <2>3
<1>4. Rec(iter)
  <2>. HIDE DEF Rec
  <2>. QED
    BY <1>3
<1>5. iter[2] = both
  <2>. HIDE DEF iter
  <2>1. iter[1] = s /\ iter[2] = iter[1] \o t
    <3>1. iter[1] = seqs[1] /\ iter[2] = iter[2 - 1] \o seqs[2]
      BY <1>1, <1>4
    <3>2. 2 - 1 = 1
      OBVIOUS
    <3>. QED
      BY <1>1, <3>1, <3>2, Zenon
  <2>. QED
    BY <2>1
<1>. QED
  BY <1>2, <1>5 DEF seqs

(* Of every client, between two calls.                                     *)
Calm ==
    /\ client \in [Handler -> Client]
    /\ \A h \in Handler : ~client[h].thrown

LEMMA NoMatchCalm == NoMatch \in Client /\ ~NoMatch.thrown
<1>. DEFINE none == << >>
<1>1. DOMAIN none = {} /\ none \in [{} -> Shown]
  OBVIOUS
<1>. HIDE DEF none
<1>2. NoMatch = [players |-> none, deck |-> {}, inPlay |-> <<>>,
                 auctioneer |-> NoName, thrown |-> FALSE]
  BY DEF NoMatch, ClientMatch, none
<1>. QED
  BY <1>1, <1>2 DEF Client, Nick

(* What the call made of client h: c is what it was.                       *)
LEMMA ClientReads ==
    ASSUME OnMessages, NEW h \in Handler, client[h] \in Client
    PROVE  /\ sessions'[h] # "open" => client'[h] = NoMatch
           /\ sessions'[h] = "open" =>
                /\ sentMessages'[h] = <<>> => client'[h] = client[h]
                /\ \A s \in Seq(Told) : sentMessages'[h] = << s >>
                     => client'[h] = Reads(client[h], s)
                /\ \A s, t \in Seq(Told) : sentMessages'[h] = << s, t >>
                     => client'[h] = Reads(Reads(client[h], s), t)
<1>1. client'[h] = IF sessions'[h] # "open" THEN NoMatch
                   ELSE FoldLeft(DispatchEvent, client[h],
                                 FlattenSeq(sentMessages'[h]))
  BY DEF OnMessages
<1>2. CASE sessions'[h] # "open"
  BY <1>1, <1>2
<1>3. CASE sessions'[h] = "open"
  <2>1. client'[h] = FoldLeft(DispatchEvent, client[h],
                              FlattenSeq(sentMessages'[h]))
    BY <1>1, <1>3
  <2>2. ASSUME sentMessages'[h] = <<>> PROVE client'[h] = client[h]
    <3>1. FlattenSeq(sentMessages'[h]) = <<>> /\ <<>> \in Seq(Told)
      BY <2>2, FlattenNone
    <3>. QED
      BY <2>1, <3>1, ReaderIsFold, ReadsNothing
  <2>3. ASSUME NEW s \in Seq(Told), sentMessages'[h] = << s >>
        PROVE  client'[h] = Reads(client[h], s)
    <3>1. FlattenSeq(sentMessages'[h]) = s
      BY <2>3, FlattenOne
    <3>. QED
      BY <2>1, <3>1, ReaderIsFold
  <2>4. ASSUME NEW s \in Seq(Told), NEW t \in Seq(Told),
               sentMessages'[h] = << s, t >>
        PROVE  client'[h] = Reads(Reads(client[h], s), t)
    <3>1. FlattenSeq(sentMessages'[h]) = s \o t
      BY <2>4, FlattenTwo, Zenon
    <3>2. s \o t \in Seq(Told)
      OBVIOUS
    <3>. QED
      BY <2>1, <3>1, <3>2, ReaderIsFold, ReadsMore
  <2>. QED
    BY <1>3, <2>2, <2>3, <2>4
<1>. QED
  BY <1>2, <1>3

(* Sent nothing, or an Error, a client shows what it did.                  *)
Undisturbed(h) == sentMessages'[h] = <<>> \/ sentMessages'[h] = << Error >>

LEMMA UndisturbedStays ==
    ASSUME Calm, OnMessages, NEW h \in Handler, Undisturbed(h)
    PROVE  /\ sessions'[h] = "open" => client'[h] = client[h]
           /\ client'[h] \in Client /\ ~client'[h].thrown
<1>1. client[h] \in Client /\ ~client[h].thrown
  BY DEF Calm
<1>2. Error \in Seq(Told)
  <2>1. Error \in Seq(Update)
    BY EventIsUpdate DEF Error, EventType
  <2>. QED
    BY <2>1, UpdatesTold
<1>3. Reads(client[h], Error) = client[h]
  BY <1>1, ErrorRead
<1>. QED
  BY <1>1, <1>2, <1>3, ClientReads, NoMatchCalm DEF Undisturbed

-----------------------------------------------------------------------------
(* Between two calls, every client of a match mirrors it.                  *)

Watched(id) ==
    /\ Staged(MatchOf(id)) /\ AtRest(MatchOf(id))
    /\ \A h \in Seated(id) : Mirrors(client[h], MatchOf(id))

Followed == Seating /\ Calm /\ \A id \in MatchID : Watched(id)

LEMMA WatchedNext ==
    ASSUME NEW id, Staged(MatchOf(id)'), AtRest(MatchOf(id)'),
           \A h \in Seated(id)' : Mirrors(client'[h], MatchOf(id)')
    PROVE  Watched(id)'
<1>1. Staged(MatchOf(id))'
  BY DEF Staged, Distinct, Apart, CanDraw, Hand
<1>2. AtRest(MatchOf(id))'
  BY DEF AtRest
<1>3. (\A h \in Seated(id) : Mirrors(client[h], MatchOf(id)))'
  BY DEF Mirrors, Tracked, HasCards, HasGold, HasAuctioneer, Runs, Seen, Hand,
         NamesOf, NameAt, CanDraw
<1>. QED
  BY <1>1, <1>2, <1>3 DEF Watched

LEMMA MirrorsCalm ==
    ASSUME NEW c, NEW m, Mirrors(c, m)
    PROVE  c \in Client /\ ~c.thrown
  BY DEF Mirrors

LEMMA CalmNext ==
    ASSUME Calm, OnMessages,
           \A h \in Handler : Undisturbed(h) \/ \E m : Mirrors(client'[h], m)
    PROVE  Calm'
<1>1. \A h \in Handler : client'[h] \in Client /\ ~client'[h].thrown
  BY UndisturbedStays, MirrorsCalm
<1>2. client' = [h \in Handler |-> client'[h]]
  BY DEF OnMessages
<1>. QED
  BY <1>1, <1>2 DEF Calm

(* Those who have a seat after a call have it in an open session.          *)
LEMMA SeatedAreOpen ==
    ASSUME Seating', NEW id \in MatchID, NEW h \in Seated(id)'
    PROVE  h \in Handler /\ sessions'[h] = "open"
<1>1. h \in Handler
  BY DEF Seated
<1>2. SeatingOK(id)'
  BY DEF Seating
<1>3. h \in Open'
  BY <1>1, <1>2 DEF SeatingOK
<1>. QED
  BY <1>1, <1>3 DEF Open

(* A match that a call does not concern.                                   *)
LEMMA WatchedStays ==
    ASSUME Followed, Seating', OnMessages, NEW id \in MatchID,
           MatchOf(id)' = MatchOf(id), Seated(id)' \subseteq Seated(id),
           \A h \in Seated(id)' : Undisturbed(h)
    PROVE  Watched(id)'
<1>1. Watched(id) /\ Calm
  BY DEF Followed
<1>2. ASSUME NEW h \in Seated(id)' PROVE Mirrors(client'[h], MatchOf(id)')
  <2>1. client'[h] = client[h]
    BY <1>1, <1>2, SeatedAreOpen, UndisturbedStays
  <2>2. Mirrors(client[h], MatchOf(id))
    BY <1>1, <1>2 DEF Watched
  <2>. QED
    BY <2>1, <2>2
<1>3. Staged(MatchOf(id)') /\ AtRest(MatchOf(id)')
  BY <1>1 DEF Watched
<1>. QED
  BY <1>2, <1>3, WatchedNext

LEMMA Undisturbing ==
    /\ SendsNothing => \A h \in Handler : Undisturbed(h)
    /\ \A receivers :
          SendsTo(receivers, Error) => \A h \in Handler : Undisturbed(h)
  BY DEF SendsNothing, SendsTo, Undisturbed

(* A call that does not concern any match.                                 *)
LEMMA QuietFollows ==
    ASSUME Followed, Seating', OnMessages, \A h \in Handler : Undisturbed(h),
           UNCHANGED << matches, matchHandlers >>
    PROVE  Followed'
<1>1. Calm'
  BY CalmNext DEF Followed
<1>2. ASSUME NEW id \in MatchID PROVE Watched(id)'
  <2>1. MatchOf(id)' = MatchOf(id) /\ Seated(id)' = Seated(id)
    BY MatchStays DEF Seated
  <2>2. \A h \in Seated(id)' : Undisturbed(h)
    BY DEF Seated
  <2>. QED
    BY <2>1, <2>2, WatchedStays
<1>. QED
  BY <1>1, <1>2 DEF Followed

LEMMA LeaveFollows ==
    ASSUME Followed, Seating', OnMessages, NEW h \in Handler, Leave(h)
    PROVE  Followed'
<1>1. SendsNothing /\ sessions[h] # "none" /\ Seating
  BY DEF Leave, Followed
<1>2. \A k \in Handler : Undisturbed(k)
  BY <1>1, Undisturbing
<1>3. CASE h \notin DOMAIN handlerMatch \/ Plays(h, "none")
  <2>1. UNCHANGED << matches, matchHandlers >>
    BY <1>3 DEF Leave
  <2>. QED
    BY <1>2, <2>1, QuietFollows
<1>4. CASE ~(h \notin DOMAIN handlerMatch \/ Plays(h, "none"))
  <2>. PICK at, n, left : /\ at = handlerMatch[h].matchID
                          /\ n = handlerMatch[h].nickname
                          /\ left = RemovePlayer(matches[at], n)
    OBVIOUS
  <2>1. h \in Open /\ ~Plays(h, "none")
    BY <1>1, <1>4 DEF Seating, MapsOK, Open
  <2>2. matches' = SetMatch(at, left) /\ matchHandlers' = matchHandlers \ {<< at, h >>}
    BY <1>4 DEF Leave, Erase
  <2>3. /\ at \in MatchID /\ MatchOf(at) = matches[at]
        /\ Sound(matches[at]) /\ IsPlayer(matches[at], n)
    BY <1>1, <2>1, PlayerOfSession
  <2>4. /\ MatchOf(at)' = left
        /\ \A id : id # at => MatchOf(id)' = MatchOf(id)
    BY <2>2, SetMatchAt, Zenon
  <2>5. \A id \in MatchID : Seated(id)' \subseteq Seated(id)
    BY <2>2 DEF Seated
  <2>6. Calm /\ Watched(at)
    BY <2>3 DEF Followed
  <2>7. Staged(MatchOf(at)) /\ AtRest(MatchOf(at))
    BY <2>6 DEF Watched
  <2>8. /\ Staged(left) /\ AtRest(left)
        /\ \A c : Mirrors(c, MatchOf(at)) => Mirrors(c, left)
    BY <2>3, <2>7, LeaveMirrors
  <2>9. ASSUME NEW k \in Seated(at)' PROVE Mirrors(client'[k], MatchOf(at)')
    <3>1. client'[k] = client[k]
      BY <1>2, <2>3, <2>6, <2>9, SeatedAreOpen, UndisturbedStays
    <3>2. Mirrors(client[k], MatchOf(at))
      BY <2>3, <2>5, <2>6, <2>9 DEF Watched
    <3>. QED
      BY <2>4, <2>8, <3>1, <3>2
  <2>10. Watched(at)'
    BY <2>4, <2>8, <2>9, WatchedNext
  <2>11. ASSUME NEW id \in MatchID, id # at PROVE Watched(id)'
    <3>1. \A k \in Seated(id)' : Undisturbed(k)
      BY <1>2 DEF Seated
    <3>. QED
      BY <2>4, <2>5, <2>11, <3>1, WatchedStays
  <2>12. Calm'
    BY <1>2, <2>6, CalmNext
  <2>. QED
    BY <2>10, <2>11, <2>12 DEF Followed
<1>. QED
  BY <1>3, <1>4

(* Who is in the match, or comes to it, reads a first message and mirrors  *)
(* the match with the new player.                                          *)
LEMMA WelcomeMirrors ==
    ASSUME Followed, NEW h \in Handler, NEW at \in MatchID, NEW n \in Name,
           ~Refuses(at, n)
    PROVE  LET joined == AddPlayer(MatchOf(at), n)
           IN  /\ Sound(joined) /\ Undisputed(joined) /\ joined.players # <<>>
               /\ joined.currentPhase \in {"WaitForStart", "Finished"}
               /\ Staged(joined) /\ AtRest(joined)
               /\ MatchInfo(joined) \in Seq(Told)
               /\ Mirrors(Reads(client[h], MatchInfo(joined)), joined)
               /\ JoinMatchResult(n) \in Seq(Told)
               /\ \A k \in Seated(at) :
                    Mirrors(Reads(client[k], JoinMatchResult(n)), joined)
<1>. DEFINE old == MatchOf(at)
            joined == AddPlayer(old, n)
<1>1. Sound(old) /\ Staged(old) /\ \A k \in Seated(at) : Mirrors(client[k], old)
  BY DEF Followed, Seating, SeatingOK, Watched
<1>2. old.currentPhase \in {"WaitForStart", "Finished"} /\ n \notin NamesOf(old)
  BY PlayersAre DEF Refuses, IsRunning
<1>3. client[h] \in Client /\ ~client[h].thrown
  BY DEF Followed, Calm
<1>. HIDE DEF old
<1>4. Sound(joined) /\ Undisputed(joined) /\ joined.players # <<>>
  BY <1>1, <1>2, AddPlayerSound
<1>5. Staged(joined) /\ AtRest(joined)
  BY <1>1, <1>2, AddPlayerStaged
<1>6. joined.currentPhase \in {"WaitForStart", "Finished"}
  BY <1>1, <1>2, AddPlayerResult
<1>7. \A k \in Seated(at) : Mirrors(Reads(client[k], JoinMatchResult(n)), joined)
  BY <1>1, <1>2, JoinMirrors
<1>8. JoinMatchResult(n) \in Seq(Told)
  <2>1. JoinMatchResult(n) \in Seq(Update)
    BY EventIsUpdate DEF JoinMatchResult, EventType
  <2>. QED
    BY <2>1, UpdatesTold
<1>. HIDE DEF joined
<1>9. MatchInfo(joined) \in Seq(Told)
      /\ Mirrors(Reads(client[h], MatchInfo(joined)), joined)
  BY <1>3, <1>4, <1>5, <1>6, InfoMirrors
<1>. QED
  BY <1>4, <1>5, <1>6, <1>7, <1>8, <1>9 DEF joined, old

LEMMA JoinMatchFollows ==
    ASSUME Followed, Seating', OnMessages, NEW h \in Handler,
           NEW at \in MatchID, NEW n \in Name, JoinMatch(h, at, n)
    PROVE  Followed'
<1>. DEFINE joined == AddPlayer(MatchOf(at), n)
            here == Seated(at) \cup {h}
            welcome(k) == IF k = h THEN MatchInfo(joined) ELSE JoinMatchResult(n)
<1>1. /\ Plays(h, "none") /\ ~Refuses(at, n) /\ Seating /\ Calm
      /\ matchHandlers' = matchHandlers \cup {<< at, h >>}
  BY DEF JoinMatch, Followed
<1>2. /\ Sound(joined) /\ Undisputed(joined) /\ joined.players # <<>>
      /\ joined.currentPhase \in {"WaitForStart", "Finished"}
      /\ Staged(joined) /\ AtRest(joined)
  BY <1>1, WelcomeMirrors
<1>3. \A k \in here : /\ welcome(k) \in Seq(Told)
                      /\ Mirrors(Reads(client[k], welcome(k)), joined)
  <2>1. /\ MatchInfo(joined) \in Seq(Told)
        /\ Mirrors(Reads(client[h], MatchInfo(joined)), joined)
        /\ JoinMatchResult(n) \in Seq(Told)
        /\ \A k \in Seated(at) :
             Mirrors(Reads(client[k], JoinMatchResult(n)), joined)
    BY <1>1, WelcomeMirrors
  <2>. HIDE DEF joined
  <2>. QED
    BY <2>1
<1>4. h \notin Seated(at) /\ here \subseteq Handler /\ Seated(at)' = here
      /\ \A id \in MatchID : id # at => Seated(id)' = Seated(id)
  BY <1>1, NoSeat DEF Seated
<1>5. \E m : /\ matches' = SetMatch(at, m) /\ Staged(m) /\ AtRest(m)
             /\ \A k \in here : sessions'[k] = "open" => Mirrors(client'[k], m)
             /\ \A k \in Handler \ here : sentMessages'[k] = <<>>
  <2>. DEFINE Welcome(k) == IF k = h THEN << MatchInfo(joined) >>
                            ELSE IF k \in Seated(at) THEN << JoinMatchResult(n) >>
                            ELSE <<>>
  <2>1. /\ \A k \in here : Welcome(k) = << welcome(k) >>
        /\ \A k \in Handler \ here : Welcome(k) = <<>>
    BY <1>4
  <2>2. \A k \in here : k \in Handler /\ client[k] \in Client
    BY <1>1, <1>4 DEF Calm
  <2>3. CASE /\ matches' = SetMatch(at, joined)
             /\ sentMessages' = [k \in Handler |-> Welcome(k)]
    <3>1. \A k \in here : sentMessages'[k] = << welcome(k) >>
      BY <1>4, <2>1, <2>3
    <3>2. \A k \in Handler \ here : sentMessages'[k] = <<>>
      BY <2>1, <2>3
    <3>. HIDE DEF joined, here, welcome, Welcome
    <3>3. \A k \in here : sessions'[k] = "open" =>
            client'[k] = Reads(client[k], welcome(k))
      BY <1>3, <2>2, <3>1, ClientReads
    <3>4. \A k \in here : sessions'[k] = "open" => Mirrors(client'[k], joined)
      BY <1>3, <3>3
    <3>. QED
      BY <1>2, <2>3, <3>2, <3>4
  <2>4. ASSUME NEW m \in Starts(joined), matches' = SetMatch(at, m),
               sentMessages' = [k \in Handler |-> Welcome(k) \o
                  IF k = h \/ k \in Seated(at) THEN << m.updateEvent >> ELSE <<>>]
        PROVE  /\ Staged(m) /\ AtRest(m)
               /\ \A k \in here : sessions'[k] = "open" => Mirrors(client'[k], m)
               /\ \A k \in Handler \ here : sentMessages'[k] = <<>>
    <3>1. /\ Staged(m) /\ AtRest(m)
          /\ \A c : Mirrors(c, joined) => Mirrors(Reads(c, m.updateEvent), m)
      BY <1>2, StartMirrors
    <3>2. m.updateEvent \in Seq(Told)
      BY <1>2, StartSays, UpdatesTold
    <3>3. \A k \in here :
            sentMessages'[k] = << welcome(k) >> \o << m.updateEvent >>
      <4>. HIDE DEF welcome, Welcome
      <4>. QED
        BY <1>4, <2>1, <2>4
    <3>4. \A k \in Handler \ here : sentMessages'[k] = <<>> \o <<>>
      <4>. HIDE DEF Welcome
      <4>. QED
        BY <2>1, <2>4
    <3>5. \A k \in here : sentMessages'[k] = << welcome(k), m.updateEvent >>
      <4>. HIDE DEF welcome
      <4>. QED
        BY <1>3, <3>2, <3>3, TwoAtOnce
    <3>6. \A k \in Handler \ here : sentMessages'[k] = <<>>
      BY <3>4
    <3>. HIDE DEF joined, here, welcome, Welcome
    <3>7. \A k \in here : sessions'[k] = "open" =>
            client'[k] = Reads(Reads(client[k], welcome(k)), m.updateEvent)
      BY <1>3, <2>2, <3>2, <3>5, ClientReads
    <3>8. \A k \in here : sessions'[k] = "open" => Mirrors(client'[k], m)
      BY <1>3, <3>1, <3>7
    <3>. QED
      BY <3>1, <3>6, <3>8
  <2>. QED
    BY <2>3, <2>4 DEF JoinMatch
<1>. PICK m : /\ matches' = SetMatch(at, m) /\ Staged(m) /\ AtRest(m)
              /\ \A k \in here : sessions'[k] = "open" => Mirrors(client'[k], m)
              /\ \A k \in Handler \ here : sentMessages'[k] = <<>>
  BY <1>5
<1>6. /\ MatchOf(at)' = m
      /\ \A id : id # at => MatchOf(id)' = MatchOf(id)
  BY SetMatchAt, Zenon
<1>7. \A k \in here : Mirrors(client'[k], m)
  BY <1>4, SeatedAreOpen
<1>8. Watched(at)'
  BY <1>4, <1>6, <1>7, WatchedNext
<1>9. ASSUME NEW id \in MatchID, id # at PROVE Watched(id)'
  <2>1. ASSUME NEW k \in Seated(id) PROVE Undisturbed(k)
    <3>1. k \in Handler /\ k # h /\ k \notin Seated(at)
      BY <1>1, <1>9, <2>1, NoSeat, OneSeat DEF Seated
    <3>. QED
      BY <3>1 DEF Undisturbed
  <2>. QED
    BY <1>4, <1>6, <1>9, <2>1, WatchedStays
<1>10. Calm'
  <2>1. \A k \in Handler : Undisturbed(k) \/ Mirrors(client'[k], m)
    BY <1>7 DEF Undisturbed
  <2>. QED
    BY <1>1, <2>1, CalmNext
<1>. QED
  BY <1>8, <1>9, <1>10 DEF Followed

LEMMA PlayFollows ==
    ASSUME Followed, Seating', OnMessages, NEW h \in Handler,
           NEW event \in InputEvent, event.type \in {"Attack", "Offer", "Pass"},
           Play(h, event)
    PROVE  Followed'
<1>1. PICK at, m :
         /\ at \in MatchID
         /\ h \in Seated(at) /\ at \in DOMAIN matches
         /\ Sound(MatchOf(at)) /\ Distinct(MatchOf(at).players)
         /\ Handled(MatchOf(at), m) /\ Respond(h, at, m)
  BY PlayHandles DEF Followed
<1>2. /\ matches' = SetMatch(at, m)
      /\ UNCHANGED << sessions, handlerMatch, matchHandlers >>
  BY <1>1 DEF Respond
<1>3. /\ MatchOf(at)' = m
      /\ \A id : id # at => MatchOf(id)' = MatchOf(id)
  BY <1>2, SetMatchAt, Zenon
<1>4. Seating /\ Calm /\ Watched(at)
  BY <1>1 DEF Followed
<1>5. \A id \in MatchID : Seated(id)' = Seated(id) /\ Seated(id) \subseteq Handler
  BY <1>2 DEF Seated
<1>6. /\ Staged(MatchOf(at)) /\ AtRest(MatchOf(at))
      /\ \A k \in Seated(at) : Mirrors(client[k], MatchOf(at))
  BY <1>4 DEF Watched
<1>7. /\ Staged(m) /\ AtRest(m)
      /\ \A c : Mirrors(c, MatchOf(at)) =>
           IF m.updateEvent = Error
           THEN Mirrors(c, m) /\ Reads(c, Error) = c
           ELSE Mirrors(Reads(c, m.updateEvent), m)
  BY <1>1, <1>6, HandledMirrors
<1>8. m.fault = "none" /\ m.updateEvent \in Seq(Told)
  <2>1. Sound(m)
    BY <1>1, HandledSound
  <2>2. m.updateEvent \in Seq(Update)
    BY <1>1, HandledSays
  <2>. QED
    BY <2>1, <2>2, UpdatesTold DEF Sound
<1>9. \A k \in Seated(at) :
        k \in Handler /\ sessions'[k] = "open" /\ client[k] \in Client
  BY <1>1, <1>4, <1>5, SeatedAreOpen DEF Calm
<1>10. /\ \A k \in Seated(at) : Mirrors(client'[k], m)
       /\ \A k \in Handler \ Seated(at) : Undisturbed(k)
  <2>1. CASE m.updateEvent = Error
    <3>1. SendsTo({h}, Error)
      BY <1>1, <1>8, <2>1 DEF Respond
    <3>2. \A k \in Handler : Undisturbed(k)
      BY <3>1, Undisturbing
    <3>3. \A k \in Seated(at) : client'[k] = client[k]
      BY <1>4, <1>9, <3>2, UndisturbedStays
    <3>. QED
      BY <1>6, <1>7, <2>1, <3>2, <3>3
  <2>2. CASE m.updateEvent # Error
    <3>1. SendsTo(Seated(at), m.updateEvent)
      BY <1>1, <1>8, <2>2 DEF Respond
    <3>2. /\ \A k \in Seated(at) : sentMessages'[k] = << m.updateEvent >>
          /\ \A k \in Handler \ Seated(at) : sentMessages'[k] = <<>>
      BY <1>9, <3>1 DEF SendsTo
    <3>3. \A k \in Seated(at) : client'[k] = Reads(client[k], m.updateEvent)
      BY <1>8, <1>9, <3>2, ClientReads
    <3>. QED
      BY <1>6, <1>7, <2>2, <3>2, <3>3 DEF Undisturbed
  <2>. QED
    BY <2>1, <2>2
<1>11. Watched(at)'
  BY <1>1, <1>3, <1>5, <1>7, <1>10, WatchedNext
<1>12. ASSUME NEW id \in MatchID, id # at PROVE Watched(id)'
  <2>1. \A k \in Seated(id) : k \in Handler /\ k \notin Seated(at)
    BY <1>1, <1>4, <1>5, <1>12, OneSeat
  <2>. QED
    BY <1>3, <1>5, <1>10, <1>12, <2>1, WatchedStays
<1>13. Calm'
  BY <1>4, <1>10, CalmNext
<1>. QED
  BY <1>11, <1>12, <1>13 DEF Followed

LEMMA DispatchFollows ==
    ASSUME Followed, Seating', OnMessages, NEW h \in Handler,
           NEW event \in InputEvent, DispatchMessage(h, event)
    PROVE  Followed'
<1>1. ASSUME SendsTo({h}, Error), UNCHANGED << matches, matchHandlers >>
      PROVE  Followed'
  BY <1>1, Undisturbing, QuietFollows
<1>2. CASE event.type = "Error"
  BY <1>1, <1>2 DEF DispatchMessage, ReceiveInvalid
<1>3. CASE event.type = "JoinMatchRequest"
  <2>1. event.matchID \in MatchID /\ event.nickname \in Name
    BY <1>3 DEF InputEvent
  <2>2. CASE JoinMatchRefused(h, event.matchID, event.nickname)
    BY <1>1, <2>2 DEF JoinMatchRefused
  <2>3. CASE JoinMatch(h, event.matchID, event.nickname)
    BY <2>1, <2>3, JoinMatchFollows
  <2>. QED
    BY <1>3, <2>2, <2>3 DEF DispatchMessage
<1>4. CASE event.type \in {"Attack", "Offer", "Pass"}
  BY <1>4, PlayFollows DEF DispatchMessage
<1>. QED
  BY <1>2, <1>3, <1>4 DEF InputEvent

LEMMA NewMatchWatched == Staged(NewMatch) /\ AtRest(NewMatch)
<1>1. /\ NewMatch.players = <<>> /\ NewMatch.deck = InitialDeck
      /\ NewMatch.cardsInAuction = <<>> /\ NewMatch.discarded = <<>>
      /\ NewMatch.currentPhase = "WaitForStart"
  BY DEF NewMatch
<1>2. Apart(NewMatch)
  <2>1. HandsApart(<<>>) /\ Hands(<<>>) = {}
    BY DEF HandsApart, Hands
  <2>2. PilesApart(NewMatch)
    BY <1>1, DeckAssumption, EmptyPile DEF PilesApart
  <2>. QED
    BY <1>1, <2>1, <2>2 DEF Apart
<1>. QED
  BY <1>1, <1>2 DEF Staged, AtRest, Distinct

LEMMA InitFollows == InitClients => Followed
<1>. SUFFICES ASSUME InitClients PROVE Followed
  OBVIOUS
<1>1. /\ Init /\ matches = <<>> /\ matchHandlers = {}
      /\ client = [h \in Handler |-> NoMatch]
  BY DEF InitClients, Init
<1>2. Seating
  BY <1>1, InitSeating
<1>3. Calm
  BY <1>1, NoMatchCalm DEF Calm
<1>4. ASSUME NEW id \in MatchID PROVE Watched(id)
  <2>1. MatchOf(id) = NewMatch /\ Seated(id) = {}
    BY <1>1 DEF MatchOf, Seated
  <2>. QED
    BY <2>1, NewMatchWatched DEF Watched
<1>. QED
  BY <1>2, <1>3, <1>4 DEF Followed

LEMMA UnchangedFollows ==
    ASSUME Followed, UNCHANGED clientVars
    PROVE  Followed'
<1>1. UNCHANGED << sessions, matches, handlerMatch, matchHandlers, client >>
  BY DEF clientVars, vars
<1>2. Seating'
  BY <1>1, UnchangedSeats DEF Followed
<1>3. Calm'
  BY <1>1 DEF Followed, Calm
<1>4. ASSUME NEW id \in MatchID PROVE Watched(id)'
  <2>1. MatchOf(id)' = MatchOf(id) /\ Seated(id)' = Seated(id)
    BY <1>1, MatchStays DEF Seated
  <2>2. Watched(id)
    BY DEF Followed
  <2>3. \A h \in Seated(id)' : Mirrors(client'[h], MatchOf(id)')
    BY <1>1, <2>1, <2>2 DEF Watched
  <2>. QED
    BY <2>1, <2>2, <2>3, WatchedNext DEF Watched
<1>. QED
  BY <1>2, <1>3, <1>4 DEF Followed

LEMMA ClientsInvariant == ClientsSpec => []Followed
<1>1. Followed /\ [NextClients]_clientVars => Followed'
  <2>. SUFFICES ASSUME Followed, [NextClients]_clientVars PROVE Followed'
    OBVIOUS
  <2>1. CASE UNCHANGED clientVars
    BY <2>1, UnchangedFollows
  <2>2. CASE FreshNext /\ OnMessages
    <3>1. Seating /\ OnMessages
      BY <2>2 DEF Followed
    <3>2. ASSUME NEW h \in Handler, h \notin DOMAIN handlerMatch, Create(h)
          PROVE  Followed'
      <4>1. Seating'
        BY <3>1, <3>2, CreateSeats
      <4>. QED
        BY <3>1, <3>2, <4>1, Undisturbing, QuietFollows DEF Create
    <3>3. ASSUME NEW h \in Handler, Join(h) PROVE Followed'
      <4>1. Seating'
        BY <3>1, <3>3, JoinSeats
      <4>. QED
        BY <3>1, <3>3, <4>1, Undisturbing, QuietFollows DEF Join
    <3>4. ASSUME NEW h \in Handler, Leave(h) PROVE Followed'
      BY <3>1, <3>4, LeaveSeats, LeaveFollows
    <3>5. ASSUME NEW h \in Handler, NEW event \in InputEvent,
                 DispatchMessage(h, event)
          PROVE  Followed'
      BY <3>1, <3>5, DispatchSeats, DispatchFollows
    <3>. QED
      BY <2>2, <3>2, <3>3, <3>4, <3>5 DEF FreshNext, Calls
  <2>. QED
    BY <2>1, <2>2 DEF NextClients
<1>. QED
  BY <1>1, InitFollows, PTL DEF ClientsSpec

-----------------------------------------------------------------------------
(* What the clients know.                                                  *)

(* A match that runs is one that its clients mirror.                       *)
LEMMA RunningMatch ==
    ASSUME Followed, NEW id \in MatchID, NEW h \in Seated(id)
    PROVE  /\ MatchOf(id) = matches[id] /\ MatchType(matches[id])
           /\ DOMAIN matches[id].players = 1..Len(matches[id].players)
           /\ Mirrors(client[h], matches[id])
           /\ IsRunning(id) => Runs(matches[id]) /\ Tracked(matches[id])
<1>1. Watched(id) /\ SeatingOK(id) /\ MapsOK
  BY DEF Followed, Seating
<1>2. MatchOf(id) = matches[id]
  BY <1>1 DEF MapsOK, Seated, MatchOf
<1>3. MatchType(matches[id]) /\ AtRest(matches[id])
  BY <1>1, <1>2 DEF SeatingOK, Sound, Watched
<1>4. DOMAIN matches[id].players = 1..Len(matches[id].players)
  BY <1>3 DEF MatchType
<1>5. Mirrors(client[h], matches[id])
  BY <1>1, <1>2 DEF Watched
<1>6. IsRunning(id) => Runs(matches[id]) /\ Tracked(matches[id])
  BY <1>2, <1>3 DEF IsRunning, AtRest, Runs, Tracked
<1>. QED
  BY <1>2, <1>3, <1>4, <1>5, <1>6

(* joinMatch() tells those in a match of the new player and the new player *)
(* of all of them: in whatever order clients join, no client misses one.   *)
THEOREM PlayersAreKnown == ClientsSpec => []KnowsPlayers
<1>1. Followed => KnowsPlayers
  <2>. SUFFICES ASSUME Followed, NEW id \in MatchID, NEW h \in Seated(id)
                PROVE  Players(id) \subseteq DOMAIN client[h].players
    BY DEF KnowsPlayers
  <2>1. Mirrors(client[h], MatchOf(id))
    BY RunningMatch
  <2>. QED
    BY <2>1, PlayersAre DEF Mirrors
<1>. QED
  BY <1>1, ClientsInvariant, PTL

(* The SetGold, Earn and Pay events of a match carry every change of gold, *)
(* once and for the right player: the gold clients show is what players    *)
(* have, whoever came late or left.                                        *)
THEOREM GoldIsKnown == ClientsSpec => []KnowsGold
<1>1. Followed => KnowsGold
  <2>. SUFFICES ASSUME Followed, NEW id \in MatchID, NEW h \in Seated(id),
                       IsRunning(id), NEW i \in DOMAIN matches[id].players
                PROVE  client[h].players[NameAt(matches[id], i)].gold
                          = matches[id].players[i].gold
    BY DEF KnowsGold, Follows
  <2>1. HasGold(client[h], matches[id]) /\ i \in 1..Len(matches[id].players)
    BY RunningMatch DEF Mirrors
  <2>. QED
    BY <2>1 DEF HasGold, Seen, NameAt
<1>. QED
  BY <1>1, ClientsInvariant, PTL

(* GetCard names no card: the first card in play is what both the server   *)
(* and the client give, so the hands and the table agree until a card is   *)
(* discarded.                                                              *)
THEOREM CardsAreKnown == ClientsSpec => []KnowsCards
<1>1. Followed => KnowsCards
  <2>. SUFFICES ASSUME Followed, NEW id \in MatchID, NEW h \in Seated(id),
                       IsRunning(id), NEW i \in DOMAIN matches[id].players,
                       matches[id].discarded = <<>>
                PROVE  LET cards == client[h].players[NameAt(matches[id], i)].cards
                       IN  /\ client[h].inPlay = matches[id].cardsInAuction
                           /\ IsInjective(cards)
                           /\ ToSet(cards) = Owned(matches[id].players[i])
    BY DEF KnowsCards, Follows
  <2>1. HasCards(client[h], matches[id]) /\ i \in 1..Len(matches[id].players)
    BY RunningMatch DEF Mirrors
  <2>. QED
    BY <2>1 DEF HasCards, Seen, NameAt, Hand
<1>. QED
  BY <1>1, ClientsInvariant, PTL

(* The IsAuctioneer events keep the auctioneer that clients show in step   *)
(* with an index into the players, as long as nobody left the match.       *)
THEOREM AuctioneerIsKnown == ClientsSpec => []KnowsAuctioneer
<1>1. Followed => KnowsAuctioneer
  <2>. SUFFICES ASSUME Followed, NEW id \in MatchID, NEW h \in Seated(id),
                       IsRunning(id), NEW i \in DOMAIN matches[id].players,
                       DOMAIN client[h].players =
                          {NameAt(matches[id], j) : j \in DOMAIN matches[id].players}
                PROVE  client[h].auctioneer =
                          NameAt(matches[id], matches[id].currentAuctioneer + 1)
    BY DEF KnowsAuctioneer, Follows
  <2>1. HasAuctioneer(client[h], matches[id])
    BY RunningMatch DEF Mirrors
  <2>. QED
    BY <2>1 DEF HasAuctioneer, NamesOf
<1>. QED
  BY <1>1, ClientsInvariant, PTL

(* No event names a player or a card that its receiver has not been told   *)
(* of, or attacks with a hand it shows as empty: no callback of a client   *)
(* reads what is not there.                                                *)
THEOREM ClientsNeverThrow == ClientsSpec => []NeverThrows
<1>1. Followed => NeverThrows
  BY DEF Followed, Calm, NeverThrows, Open
<1>. QED
  BY <1>1, ClientsInvariant, PTL

-----------------------------------------------------------------------------
(* The match that the client library builds.                               *)

AtEnd(m) == m.currentPhase \in {"WaitForStart", "Finished"}

(* A match that starts runs if there are cards for a turn: somebody may    *)
(* attack, or the auction that opens rests.                                *)
LEMMA TurnRuns ==
    ASSUME NEW m, Playing(m), m.currentPhase = "TurnStart"
    PROVE  /\ Undisputed(ProcessPhase(m))
           /\ AtEnd(ProcessPhase(m)) <=> ~CanDraw(m.deck)
<1>1. ~Resting(m)
  BY DEF Resting, Playing, Sound
<1>2. OnPhase(m) = OnTurnStartPhase(m)
  BY <1>1, PhaseMethod
<1>. DEFINE one   == OnPhase(m)
            two   == OnPhase(one)
            three == OnPhase(two)
            four  == OnPhase(three)
            five  == OnPhase(four)
<1>3. /\ Playing(one) /\ Undisputed(one)
      /\ one.currentPhase = IF CanDraw(m.deck) THEN "Attack" ELSE "GameEnd"
  <2>1. Playing(one) /\ Undisputed(one) /\ MatchType(m)
    BY <1>2, TurnStartSound DEF Playing, Sound
  <2>2. CASE ~CanDraw(m.deck)
    BY <1>2, <2>1, <2>2 DEF OnTurnStartPhase, MatchType
  <2>3. CASE CanDraw(m.deck)
    <3>1. ~(Len(m.deck) - CardsPerTurn < 0)
      BY <2>1, <2>3, ConfigAssumption DEF CanDraw, MatchType
    <3>. QED
      BY <1>2, <2>1, <2>3, <3>1 DEF OnTurnStartPhase, MatchType, AddEvents
  <2>. QED
    BY <2>1, <2>2, <2>3
<1>4. ProcessPhase(m) = five
  BY DEF ProcessPhase
<1>. HIDE DEF one
<1>5. CASE ~CanDraw(m.deck)
  <2>1. ~Resting(one) /\ one.currentPhase = "GameEnd"
    BY <1>3, <1>5 DEF Resting, Playing, Sound
  <2>2. Playing(two) /\ two.currentPhase = "Finished"
    BY <1>3, <2>1, PhaseMethod, GameEndSound
  <2>. HIDE DEF two
  <2>3. Resting(two)
    BY <2>2 DEF Resting
  <2>4. five = two
    BY <2>3, RestingStays
  <2>5. Undisputed(two)
    BY <2>2 DEF Playing, Sound
  <2>. QED
    BY <1>4, <1>5, <2>2, <2>4, <2>5 DEF AtEnd
<1>6. CASE CanDraw(m.deck) /\ Resting(one)
  <2>1. five = one
    BY <1>6, RestingStays
  <2>. QED
    BY <1>3, <1>4, <1>6, <2>1 DEF AtEnd
<1>7. CASE CanDraw(m.deck) /\ ~Resting(one)
  <2>1. one.currentPhase = "Attack" /\ one.currentAttack = 0
    BY <1>3, <1>7 DEF Undisputed
  <2>2. /\ Playing(two) /\ Undisputed(two)
        /\ two.currentPhase = "Auction"
    BY <1>3, <1>7, <2>1, PhaseMethod, AttackSound
  <2>. HIDE DEF two
  <2>3. Resting(two)
    BY <2>2, FreshAuctionRests
  <2>4. five = two
    BY <2>3, RestingStays
  <2>. QED
    BY <1>4, <1>7, <2>2, <2>4 DEF AtEnd
<1>. QED
  BY <1>5, <1>6, <1>7

LEMMA StartRuns ==
    ASSUME NEW m, Sound(m), Undisputed(m), m.players # <<>>, NEW r \in Starts(m)
    PROVE  /\ Sound(r) /\ Undisputed(r) /\ Len(r.players) = Len(m.players)
           /\ AtEnd(r) <=> ~CanDraw(m.deck)
<1>. DEFINE n == [m EXCEPT !.updateEvent = MovedFrom(m.updateEvent)]
<1>1. MatchType(m)
  BY DEF Sound
<1>2. MatchType(n) /\ n.fault = m.fault /\ n.players = m.players
      /\ n.currentPhase = m.currentPhase /\ n.currentOffer = m.currentOffer
      /\ n.cardsInAuction = m.cardsInAuction
      /\ n.currentAttack = m.currentAttack
  <2>1. MovedFrom(m.updateEvent) \in Seq(Update)
    BY <1>1 DEF MatchType, MovedFrom
  <2>. QED
    BY <1>1, <2>1 DEF MatchType
<1>3. PICK a \in DOMAIN m.players, d \in Shuffles(m.deck) :
        r = ProcessPhase(OnGameStartPhase(n, a, d))
  BY DEF Starts
<1>4. d \in Seq(Card) /\ Len(d) = Len(m.deck)
  BY <1>1, DeckAssumption DEF Shuffles, MatchType
<1>. HIDE DEF n
<1>5. Sound(n) /\ Undisputed(n)
  BY <1>2 DEF Sound, Covered, Undisputed
<1>. DEFINE g == OnGameStartPhase(n, a, d)
<1>6. Playing(g) /\ g.currentPhase = "TurnStart" /\ g.deck = d
  BY <1>2, <1>4, <1>5, GameStartSound, GameStartResult
<1>. HIDE DEF g
<1>7. Undisputed(r) /\ (AtEnd(r) <=> ~CanDraw(g.deck))
  BY <1>3, <1>6, TurnRuns DEF g
<1>8. CanDraw(g.deck) <=> CanDraw(m.deck)
  BY <1>4, <1>6 DEF CanDraw
<1>9. Sound(r) /\ Keeps(m, r)
  BY StartSound, StartKeeps
<1>10. Len(r.players) = Len(m.players)
  <2>1. r.players \in Seq(PlayerType) /\ m.players \in Seq(PlayerType)
    BY <1>1, <1>9 DEF Sound, MatchType
  <2>. QED
    BY <1>9, <2>1 DEF Keeps, Nicknames
<1>. QED
  BY <1>7, <1>8, <1>9, <1>10

(* The matches the library has before it has added the last player, and    *)
(* those it may have started.                                              *)
AnyMatch ==
    [ currentPhase : Phase, players : Seq(PlayerType),
      currentAttack : Nat, currentOffer : Nat,
      currentAuctioneer : Nat \cup {-1},
      cardsInAuction : Seq(Card), discarded : Seq(Card),
      deck : Seq(Card), updateEvent : Seq(Update),
      fault : {"none", "panic", "undefined"} ]

Building ==
    {m \in AnyMatch :
        /\ Sound(m) /\ Undisputed(m) /\ Len(m.players) <= NumPlayers
        /\ Len(m.players) < NumPlayers => m.currentPhase = "WaitForStart"}

LEMMA BuildingIs ==
    ASSUME NEW m
    PROVE  m \in Building <=>
             /\ Sound(m) /\ Undisputed(m) /\ Len(m.players) <= NumPlayers
             /\ Len(m.players) < NumPlayers => m.currentPhase = "WaitForStart"
  BY DEF Building, AnyMatch, Sound, MatchType

(* What adding a player of that nickname makes of one match.               *)
Joined(m, n) == IF Admits(m, n) THEN AddPlayer(m, n) ELSE m

Builds(m, n) ==
    IF Len(Joined(m, n).players) = NumPlayers THEN Starts(Joined(m, n))
                                              ELSE {Joined(m, n)}

LEMMA AddBuilds ==
    ASSUME NEW built, NEW n
    PROVE  AddPlayerAndStart(built, n) = UNION {Builds(m, n) : m \in built}
  BY Zenon DEF AddPlayerAndStart, Builds, Joined

LEMMA OneBuilds ==
    ASSUME NEW m \in Building, NEW n \in Name, NEW r \in Builds(m, n)
    PROVE  /\ r \in Building
           /\ Len(m.players) < NumPlayers /\ n \notin NamesOf(m) =>
                /\ Len(r.players) = Len(m.players) + 1
                /\ Len(r.players) < NumPlayers =>
                     r.deck = m.deck /\ NamesOf(r) = NamesOf(m) \cup {n}
                /\ Len(r.players) = NumPlayers =>
                     (AtEnd(r) <=> ~CanDraw(m.deck))
<1>. DEFINE j == Joined(m, n)
            Fits == Len(m.players) < NumPlayers /\ n \notin NamesOf(m)
<1>1. /\ Sound(m) /\ Undisputed(m) /\ MatchType(m)
      /\ Len(m.players) <= NumPlayers
      /\ Len(m.players) < NumPlayers => m.currentPhase = "WaitForStart"
  BY BuildingIs DEF Sound
<1>2. /\ Len(m.players) \in Nat /\ NumPlayers \in Nat \ {0}
  BY <1>1, ConfigAssumption DEF MatchType
<1>3. /\ Sound(j) /\ Undisputed(j) /\ j.deck = m.deck
      /\ Len(j.players) <= NumPlayers
      /\ Len(j.players) < NumPlayers => j.currentPhase = "WaitForStart"
      /\ Fits => /\ Len(j.players) = Len(m.players) + 1
                 /\ NamesOf(j) = NamesOf(m) \cup {n}
  <2>1. CASE Admits(m, n)
    <3>1. /\ j = AddPlayer(m, n) /\ Len(m.players) < NumPlayers
          /\ m.currentPhase = "WaitForStart"
      BY <1>1, <1>2, <2>1 DEF Joined, Admits
    <3>2. Sound(j) /\ Undisputed(j)
      BY <1>1, <3>1, AddPlayerSound
    <3>3. /\ j.players = Append(m.players, NewPlayer(n)) /\ j.deck = m.deck
          /\ j.currentPhase = m.currentPhase
      BY <1>1, <3>1 DEF AddPlayer, MatchType
    <3>4. Len(j.players) = Len(m.players) + 1
      BY <1>1, <3>3 DEF MatchType
    <3>5. NamesOf(j) = NamesOf(m) \cup {n}
      BY <1>1, <3>1, AddPlayerNames
    <3>. QED
      BY <1>2, <3>1, <3>2, <3>3, <3>4, <3>5
  <2>2. CASE ~Admits(m, n)
    <3>1. j = m
      BY <2>2 DEF Joined
    <3>2. ~Fits
      BY <1>1, <1>2, <2>2 DEF Admits
    <3>. QED
      BY <1>1, <3>1, <3>2
  <2>. QED
    BY <2>1, <2>2
<1>4. r \in IF Len(j.players) = NumPlayers THEN Starts(j) ELSE {j}
  BY DEF Builds
<1>. HIDE DEF j, Fits
<1>5. CASE Len(j.players) = NumPlayers
  <2>1. j.players # <<>>
    BY <1>2, <1>5
  <2>2. /\ Sound(r) /\ Undisputed(r) /\ Len(r.players) = NumPlayers
        /\ AtEnd(r) <=> ~CanDraw(m.deck)
    BY <1>3, <1>4, <1>5, <2>1, StartRuns
  <2>. QED
    BY <1>2, <1>3, <1>5, <2>2, BuildingIs DEF Fits
<1>6. CASE Len(j.players) # NumPlayers
  <2>1. r = j
    BY <1>4, <1>6
  <2>. QED
    BY <1>3, <1>6, <2>1, BuildingIs DEF Fits
<1>. QED
  BY <1>5, <1>6

Builder == [x \in (SUBSET Building) \X Name |-> AddPlayerAndStart(x[1], x[2])]

LEMMA BuilderType ==
    /\ Builder \in [(SUBSET Building) \X Name -> SUBSET Building]
    /\ \A x \in SUBSET Building, n \in Name :
          Builder[<< x, n >>] = AddPlayerAndStart(x, n)
<1>1. ASSUME NEW x \in SUBSET Building, NEW n \in Name
      PROVE  AddPlayerAndStart(x, n) \in SUBSET Building
  BY AddBuilds, OneBuilds
<1>. QED
  BY <1>1 DEF Builder

LEMMA BuilderIsFold ==
    ASSUME NEW names \in Seq(Name), NEW c \in SUBSET Building
    PROVE  FoldLeft(AddPlayerAndStart, c, names) = Folded(Builder, c, names)
<1>. DEFINE len == Len(names)
            C == SUBSET Building
            Rec(it) == it = [s \in SUBSET (1..len) |->
                          IF s = {} THEN c
                          ELSE AddPlayerAndStart(it[s \ {Max(s)}], names[Max(s)])]
            iter == CHOOSE it : Rec(it)
<1>1. DOMAIN names = 1..len /\ len \in Nat /\ \A i \in 1..len : names[i] \in Name
  OBVIOUS
<1>2. FoldLeft(AddPlayerAndStart, c, names) = iter[1..len]
  BY <1>1 DEF FoldLeft, MapThenFoldSet
<1>3. /\ Builder \in [C \X Name -> C] /\ c \in C
      /\ \A x \in C, n \in Name : Builder[<< x, n >>] = AddPlayerAndStart(x, n)
  BY BuilderType
<1>. HIDE DEF C
<1>4. PICK g \in [SUBSET (1..len) -> C] : FoldsTo(g, len, Builder, c, names)
  BY <1>3, FoldExists
<1>5. \A s \in SUBSET (1..len) : s # {} =>
        /\ Max(s) \in 1..len /\ names[Max(s)] \in Name
        /\ s \ {Max(s)} \in SUBSET (1..len)
  BY <1>1, MaxOf
<1>6. Rec(g)
  <2>1. ASSUME NEW s \in SUBSET (1..len)
        PROVE  g[s] = IF s = {} THEN c
                      ELSE AddPlayerAndStart(g[s \ {Max(s)}], names[Max(s)])
    BY <1>3, <1>4, <1>5 DEF FoldsTo
  <2>. QED
    BY <2>1
<1>7. Rec(iter)
  <2>. HIDE DEF Rec
  <2>. QED
    BY <1>6
<1>. DEFINE more == [p \in (C \cup {iter[s] : s \in SUBSET (1..len)}) \X Name |->
                       AddPlayerAndStart(p[1], p[2])]
<1>. HIDE DEF iter
<1>8. FoldsTo(iter, len, more, c, names)
  <2>1. ASSUME NEW s \in SUBSET (1..len), s # {}
        PROVE  more[<< iter[s \ {Max(s)}], names[Max(s)] >>]
                  = AddPlayerAndStart(iter[s \ {Max(s)}], names[Max(s)])
    BY <1>5, <2>1
  <2>. HIDE DEF more
  <2>. QED
    BY <1>7, <2>1 DEF FoldsTo
<1>9. \A x \in C, n \in Name : more[<< x, n >>] = Builder[<< x, n >>]
  <2>1. \A x \in C, n \in Name : more[<< x, n >>] = AddPlayerAndStart(x, n)
    OBVIOUS
  <2>. HIDE DEF more
  <2>. QED
    BY <1>3, <2>1
<1>. HIDE DEF more
<1>10. iter[1..Len(names)] = Folded(Builder, c, names)
  <2>1. IsStep(Builder, C, Name) /\ SameSteps(more, Builder, C, Name)
    BY <1>3, <1>9 DEF IsStep, SameSteps
  <2>2. FoldsTo(iter, Len(names), more, c, names)
    BY <1>8
  <2>. QED
    BY <1>3, <2>1, <2>2, FoldsToFolded, SMT
<1>. QED
  BY <1>2, <1>10

(* Of the nicknames of a MatchInfo, all different and no more than a match *)
(* has room for.                                                           *)
LEMMA LibraryBuilds ==
    ASSUME NEW names \in Seq(Name), Len(names) <= NumPlayers,
           \A i, j \in 1..Len(names) : names[i] = names[j] => i = j,
           NEW deck \in Seq(Card), NEW info,
           info.players = names, info.deck = deck,
           NEW built \in NewMatches(info)
    PROVE  AtEnd(built) <=> Len(names) < NumPlayers \/ ~CanDraw(deck)
<1>. DEFINE empty == [NewMatch EXCEPT !.deck = deck]
            First(k) == {names[i] : i \in 1..k}
            Good(k, m) == /\ Len(m.players) = k
                          /\ IF k < NumPlayers
                             THEN m.deck = deck /\ NamesOf(m) = First(k)
                             ELSE AtEnd(m) <=> ~CanDraw(deck)
            C == SUBSET Building
            S == [k \in 0..Len(names) |-> {x \in C : \A m \in x : Good(k, m)}]
<1>1. Len(names) \in Nat /\ NumPlayers \in Nat \ {0}
  BY ConfigAssumption
<1>2. empty \in Building /\ empty.players = <<>> /\ empty.deck = deck
  <2>1. MatchType(NewMatch) /\ Sound(NewMatch) /\ NewMatch.players = <<>>
        /\ NewMatch.currentPhase = "WaitForStart" /\ Undisputed(NewMatch)
    BY NewMatchSound DEF Sound, NewMatch
  <2>2. MatchType(empty) /\ empty.players = <<>> /\ empty.deck = deck
        /\ empty.currentPhase = "WaitForStart" /\ empty.fault = NewMatch.fault
        /\ empty.currentAttack = NewMatch.currentAttack
        /\ empty.currentOffer = NewMatch.currentOffer
        /\ empty.cardsInAuction = NewMatch.cardsInAuction
    BY <2>1 DEF MatchType
  <2>. HIDE DEF empty
  <2>3. Sound(empty) /\ Undisputed(empty)
    BY <2>1, <2>2 DEF Sound, Undisputed, Covered
  <2>4. Len(empty.players) <= NumPlayers
    BY <1>1, <2>2
  <2>. QED
    BY <2>2, <2>3, <2>4, BuildingIs
<1>. HIDE DEF empty
<1>3. {empty} \in C /\ {empty} \in S[0]
  <2>1. NamesOf(empty) = {} /\ First(0) = {}
    BY <1>2 DEF NamesOf
  <2>. HIDE DEF First
  <2>2. Good(0, empty)
    BY <1>1, <1>2, <2>1
  <2>3. {empty} \in C
    BY <1>2
  <2>. HIDE DEF Good, C
  <2>. QED
    BY <1>1, <2>2, <2>3
<1>4. ASSUME NEW k \in 1..Len(names), NEW x \in C, x \in S[k - 1]
      PROVE  Builder[<< x, names[k] >>] \in S[k]
  <2>. DEFINE y == AddPlayerAndStart(x, names[k])
  <2>1. names[k] \in Name /\ k - 1 \in 0..Len(names) /\ k \in 0..Len(names)
        /\ k - 1 < NumPlayers /\ k <= NumPlayers
    BY <1>1
  <2>2. Builder[<< x, names[k] >>] = y /\ y \in C
    <3>1. Builder[<< x, names[k] >>] = y
      BY <2>1, BuilderType
    <3>2. y \in C
      BY <2>1, AddBuilds, OneBuilds
    <3>. QED
      BY <3>1, <3>2
  <2>3. \A m \in x : Good(k - 1, m)
    BY <1>4, <2>1
  <2>4. ASSUME NEW r \in y PROVE Good(k, r)
    <3>1. PICK m \in x : r \in Builds(m, names[k])
      BY <2>4, AddBuilds
    <3>2. /\ m \in Building /\ Len(m.players) = k - 1 /\ m.deck = deck
          /\ NamesOf(m) = First(k - 1)
      BY <2>1, <2>3
    <3>3. Len(m.players) < NumPlayers /\ names[k] \notin NamesOf(m)
      BY <1>1, <2>1, <3>2
    <3>. HIDE DEF First
    <3>4. /\ Len(r.players) = Len(m.players) + 1
          /\ Len(r.players) < NumPlayers =>
               r.deck = m.deck /\ NamesOf(r) = NamesOf(m) \cup {names[k]}
          /\ Len(r.players) = NumPlayers => (AtEnd(r) <=> ~CanDraw(m.deck))
      BY <2>1, <3>1, <3>2, <3>3, OneBuilds
    <3>5. Len(r.players) = k
      BY <3>2, <3>4
    <3>6. First(k) = First(k - 1) \cup {names[k]}
      BY <1>1, <2>1 DEF First
    <3>. QED
      BY <1>1, <2>1, <3>2, <3>4, <3>5, <3>6
  <2>. HIDE DEF y, Good
  <2>. QED
    BY <2>1, <2>2, <2>4
<1>5. NewMatches(info) = Folded(Builder, {empty}, names)
  <2>1. NewMatches(info) = FoldLeft(AddPlayerAndStart, {empty}, names)
    BY DEF NewMatches, empty
  <2>. QED
    BY <1>3, <2>1, BuilderIsFold
<1>6. NewMatches(info) \in S[Len(names)]
  <2>1. Builder \in [C \X Name -> C]
    BY BuilderType
  <2>. DEFINE start == {empty}
  <2>. HIDE DEF S, C, start
  <2>2. \A k \in 1..Len(names) : \A x \in C :
          x \in S[k - 1] => Builder[<< x, names[k] >>] \in S[k]
    BY <1>4
  <2>3. start \in C /\ start \in S[0]
    BY <1>3 DEF start
  <2>4. Folded(Builder, start, names) \in S[Len(names)]
    BY <2>1, <2>2, <2>3, FoldedIn
  <2>. QED
    BY <1>5, <2>4 DEF start
<1>7. Good(Len(names), built) /\ built \in Building
  <2>. HIDE DEF Good
  <2>. QED
    BY <1>1, <1>6
<1>8. CASE Len(names) < NumPlayers
  BY <1>7, <1>8, BuildingIs DEF AtEnd
<1>9. CASE ~(Len(names) < NumPlayers)
  BY <1>7, <1>9
<1>. QED
  BY <1>8, <1>9

(* No match has more players than it starts with.                          *)
Room == \A id \in MatchID : Len(MatchOf(id).players) <= NumPlayers

(* What joinMatch() makes of a match that has room.                        *)
LEMMA JoinedFits ==
    ASSUME Seating, Room, NEW at \in MatchID, NEW n \in Name, ~Refuses(at, n)
    PROVE  LET joined == AddPlayer(MatchOf(at), n)
           IN  /\ Sound(joined) /\ Undisputed(joined) /\ joined.players # <<>>
               /\ AtEnd(joined) /\ Len(joined.players) <= NumPlayers
<1>. DEFINE old == MatchOf(at)
            joined == AddPlayer(old, n)
<1>1. Sound(old) /\ MatchType(old)
  BY DEF Seating, SeatingOK, Sound
<1>2. /\ old.currentPhase \in {"WaitForStart", "Finished"}
      /\ Len(old.players) # NumPlayers /\ Len(old.players) <= NumPlayers
  BY DEF Refuses, IsRunning, IsFull, Room
<1>. HIDE DEF old
<1>3. Sound(joined) /\ Undisputed(joined) /\ joined.players # <<>>
  BY <1>1, <1>2, AddPlayerSound
<1>4. /\ joined.players = Append(old.players, NewPlayer(n))
      /\ joined.currentPhase = old.currentPhase
  BY <1>1 DEF AddPlayer, MatchType
<1>5. old.players \in Seq(PlayerType)
  BY <1>1 DEF MatchType
<1>6. Len(joined.players) = Len(old.players) + 1 /\ Len(old.players) \in Nat
  BY <1>4, <1>5
<1>7. Len(joined.players) <= NumPlayers
  BY <1>2, <1>6, ConfigAssumption
<1>. QED
  BY <1>2, <1>3, <1>4, <1>7 DEF AtEnd, old

LEMMA RoomStays ==
    ASSUME Room, NEW at \in MatchID, NEW m, matches' = SetMatch(at, m),
           Len(m.players) <= NumPlayers
    PROVE  Room'
<1>1. MatchOf(at)' = m /\ \A id : id # at => MatchOf(id)' = MatchOf(id)
  BY SetMatchAt, Zenon
<1>. QED
  BY <1>1 DEF Room

LEMMA LeaveHasRoom ==
    ASSUME Seating, Room, NEW h \in Handler, Leave(h)
    PROVE  Room'
<1>1. CASE h \notin DOMAIN handlerMatch \/ Plays(h, "none")
  BY <1>1, MatchStays DEF Leave, Room
<1>2. CASE ~(h \notin DOMAIN handlerMatch \/ Plays(h, "none"))
  <2>. PICK at, n, left : /\ at = handlerMatch[h].matchID
                          /\ n = handlerMatch[h].nickname
                          /\ left = RemovePlayer(matches[at], n)
    OBVIOUS
  <2>1. h \in Open /\ ~Plays(h, "none")
    BY <1>2 DEF Leave, Seating, MapsOK, Open
  <2>2. matches' = SetMatch(at, left)
    BY <1>2 DEF Leave
  <2>3. /\ at \in MatchID /\ MatchOf(at) = matches[at]
        /\ Sound(matches[at]) /\ IsPlayer(matches[at], n)
    BY <2>1, PlayerOfSession
  <2>. DEFINE m == matches[at]
              k == GetPlayerIndex(m, n)
  <2>4. MatchType(m) /\ m.players \in Seq(PlayerType) /\ k \in 1..Len(m.players)
    BY <2>3, PlayerIndex DEF Sound, MatchType
  <2>5. left.players = RemoveAt(m.players, k)
    BY <2>3, <2>4 DEF RemovePlayer, MatchType
  <2>6. Len(m.players) <= NumPlayers
    BY <2>3 DEF Room
  <2>. HIDE DEF m, k
  <2>7. Len(left.players) = Len(m.players) - 1 /\ Len(m.players) \in Nat
    BY <2>4, <2>5, RemovedAt
  <2>8. Len(left.players) <= NumPlayers
    BY <2>6, <2>7, ConfigAssumption
  <2>. QED
    BY <2>2, <2>3, <2>8, RoomStays
<1>. QED
  BY <1>1, <1>2

LEMMA CallsHaveRoom ==
    ASSUME Seating, Room, NEW h \in Handler, Create(h) \/ Calls(h)
    PROVE  Room'
<1>1. UNCHANGED matches => Room'
  BY MatchStays DEF Room
<1>2. CASE Create(h) \/ Join(h) \/ Leave(h)
  BY <1>1, <1>2, LeaveHasRoom DEF Create, Join
<1>3. ASSUME NEW event \in InputEvent, DispatchMessage(h, event) PROVE Room'
  <2>1. CASE event.type = "Error"
    BY <1>1, <1>3, <2>1 DEF DispatchMessage, ReceiveInvalid
  <2>2. CASE event.type = "JoinMatchRequest"
    <3>. PICK at, n : at = event.matchID /\ n = event.nickname
      OBVIOUS
    <3>1. at \in MatchID /\ n \in Name
      BY <2>2 DEF InputEvent
    <3>2. CASE JoinMatchRefused(h, at, n)
      BY <1>1, <3>2 DEF JoinMatchRefused
    <3>3. CASE JoinMatch(h, at, n)
      <4>. DEFINE joined == AddPlayer(MatchOf(at), n)
      <4>1. ~Refuses(at, n)
        BY <3>3 DEF JoinMatch
      <4>2. /\ Sound(joined) /\ Undisputed(joined) /\ joined.players # <<>>
            /\ Len(joined.players) <= NumPlayers
        BY <3>1, <4>1, JoinedFits
      <4>3. PICK m : /\ m = joined \/ m \in Starts(joined)
                     /\ matches' = SetMatch(at, m)
        BY <3>3 DEF JoinMatch
      <4>. HIDE DEF joined
      <4>4. Len(m.players) <= NumPlayers
        BY <4>2, <4>3, StartRuns
      <4>. QED
        BY <3>1, <4>3, <4>4, RoomStays
    <3>. QED
      BY <1>3, <2>2, <3>2, <3>3 DEF DispatchMessage
  <2>3. CASE event.type \in {"Attack", "Offer", "Pass"}
    <3>1. Play(h, event)
      BY <1>3, <2>3 DEF DispatchMessage
    <3>2. PICK at, m :
             /\ at \in MatchID
             /\ h \in Seated(at) /\ at \in DOMAIN matches
             /\ Sound(MatchOf(at)) /\ Distinct(MatchOf(at).players)
             /\ Handled(MatchOf(at), m) /\ Respond(h, at, m)
      BY <2>3, <3>1, PlayHandles
    <3>3. Keeps(MatchOf(at), m) /\ Sound(m) /\ matches' = SetMatch(at, m)
      BY <3>2, HandledKeeps, HandledSound DEF Respond
    <3>4. Len(m.players) = Len(MatchOf(at).players)
      <4>. DEFINE ps == MatchOf(at).players
                  qs == m.players
      <4>1. ps \in Seq(PlayerType) /\ qs \in Seq(PlayerType)
        BY <3>2, <3>3 DEF Sound, MatchType
      <4>2. Nicknames(qs) = Nicknames(ps)
        BY <3>3 DEF Keeps
      <4>. HIDE DEF ps, qs
      <4>3. Len(qs) = Len(ps)
        BY <4>1, <4>2 DEF Nicknames
      <4>. QED
        BY <4>3 DEF ps, qs
    <3>. QED
      BY <3>2, <3>3, <3>4, RoomStays DEF Room
  <2>. QED
    BY <2>1, <2>2, <2>3 DEF InputEvent
<1>. QED
  BY <1>2, <1>3 DEF Calls

LEMMA RoomInvariant == FreshSpec => [](Seating /\ Room)
<1>1. Init => Room
  <2>. SUFFICES ASSUME Init PROVE Room
    OBVIOUS
  <2>1. \A id \in MatchID : MatchOf(id).players = <<>>
    BY DEF Init, MatchOf, NewMatch
  <2>. QED
    BY <2>1, ConfigAssumption DEF Room
<1>2. Seating /\ Room /\ [FreshNext]_vars => Room'
  <2>1. Room /\ UNCHANGED vars => Room'
    BY MatchStays DEF vars, Room
  <2>. QED
    BY <2>1, CallsHaveRoom DEF FreshNext
<1>. QED
  BY <1>1, <1>2, SeatingInvariant, PTL DEF FreshSpec

(* A client that sits down, and the library that reads its first message.  *)
Agreeing(id, h) ==
    h \in Seated(id)' \ Seated(id) =>
        \A built \in NewMatches(sentMessages'[h][1][1]) :
            (built.currentPhase \in {"WaitForStart", "Finished"})
                <=> ~IsRunning(id)'

LEMMA JoinMatchAgrees ==
    ASSUME Seating, Room, NEW h \in Handler, NEW at \in MatchID, NEW n \in Name,
           JoinMatch(h, at, n)
    PROVE  Agreeing(at, h)
<1>. DEFINE joined == AddPlayer(MatchOf(at), n)
            len == Len(joined.players)
            names == [i \in DOMAIN joined.players |-> NameAt(joined, i)]
            info == MatchInfo(joined)[1]
<1>1. ~Refuses(at, n)
  BY DEF JoinMatch
<1>2. /\ Sound(joined) /\ Undisputed(joined) /\ joined.players # <<>>
      /\ AtEnd(joined) /\ len <= NumPlayers
  BY <1>1, JoinedFits
<1>3. /\ MatchType(joined) /\ joined.deck \in Seq(Card)
      /\ DOMAIN joined.players = 1..len /\ len \in Nat
  BY <1>2 DEF Sound, MatchType
<1>4. /\ names \in Seq(Name) /\ Len(names) = len
      /\ \A i, j \in 1..len : names[i] = names[j] => i = j
  <2>1. \A i \in 1..len : NameAt(joined, i) \in Name
    BY <1>3, NameIsTyped
  <2>2. names = [i \in 1..len |-> NameAt(joined, i)]
    BY <1>3
  <2>4. Distinct(joined.players)
    BY <1>1, JoinedMatch
  <2>. HIDE DEF joined, len
  <2>3. [i \in 1..len |-> NameAt(joined, i)] \in Seq(Name)
        /\ Len([i \in 1..len |-> NameAt(joined, i)]) = len
    BY <1>3, <2>1, IsASeq
  <2>5. \A i, j \in 1..len : NameAt(joined, i) = NameAt(joined, j) => i = j
    BY <2>4 DEF Distinct, NameAt, len
  <2>. QED
    BY <2>2, <2>3, <2>5
<1>5. info.players = names /\ info.deck = joined.deck
  BY DEF MatchInfo, MatchInfoOf
<1>6. sentMessages'[h][1][1] = info
  <2>. DEFINE message == MatchInfo(joined)
  <2>1. \/ sentMessages'[h] = << message >>
        \/ \E m : sentMessages'[h] = << message >> \o << m.updateEvent >>
    BY Zenon DEF JoinMatch
  <2>. HIDE DEF message
  <2>2. ASSUME NEW update PROVE (<< message >> \o << update >>)[1] = message
    <3>. DEFINE S == {message, update}
    <3>1. << message >> \o << update >> = << message, update >>
      <4>1. message \in S /\ update \in S
        OBVIOUS
      <4>. QED
        BY <4>1, TwoAtOnce
    <3>. QED
      BY <3>1
  <2>3. sentMessages'[h][1] = message
    <3>1. << message >>[1] = message
      OBVIOUS
    <3>. QED
      BY <2>1, <2>2, <3>1, Zenon
  <2>. QED
    BY <2>3 DEF message
<1>7. AtEnd(MatchOf(at)') <=> len < NumPlayers \/ ~CanDraw(joined.deck)
  <2>1. CASE len # NumPlayers /\ matches' = SetMatch(at, joined)
    <3>1. MatchOf(at)' = joined
      BY <2>1, SetMatchAt, Zenon
    <3>2. len < NumPlayers
      BY <1>2, <1>3, <2>1, ConfigAssumption
    <3>. QED
      BY <1>2, <3>1, <3>2
  <2>2. ASSUME len = NumPlayers, NEW m \in Starts(joined),
               matches' = SetMatch(at, m)
        PROVE  AtEnd(MatchOf(at)') <=> ~CanDraw(joined.deck)
    <3>1. MatchOf(at)' = m
      BY <2>2, SetMatchAt, Zenon
    <3>2. AtEnd(m) <=> ~CanDraw(joined.deck)
      BY <1>2, StartRuns
    <3>. QED
      BY <3>1, <3>2
  <2>3. len = NumPlayers => ~(len < NumPlayers)
    BY <1>3
  <2>. QED
    BY <2>1, <2>2, <2>3 DEF JoinMatch
<1>8. ~IsRunning(at)' <=> AtEnd(MatchOf(at)')
  BY DEF IsRunning, AtEnd
<1>. HIDE DEF joined, len, names, info
<1>9. \A built \in NewMatches(info) :
        AtEnd(built) <=> len < NumPlayers \/ ~CanDraw(joined.deck)
  BY <1>2, <1>3, <1>4, <1>5, LibraryBuilds
<1>. QED
  BY <1>6, <1>7, <1>8, <1>9 DEF Agreeing, AtEnd

(* Nobody else sits down in that call, and nobody in any other.            *)
LEMMA CallsAgree ==
    ASSUME Seating, Room, NEW h \in Handler, Create(h) \/ Calls(h),
           NEW id \in MatchID, NEW k \in Handler
    PROVE  Agreeing(id, k)
<1>1. Seated(id)' \subseteq Seated(id) => Agreeing(id, k)
  BY DEF Agreeing
<1>2. matchHandlers' \subseteq matchHandlers => Agreeing(id, k)
  BY <1>1 DEF Seated
<1>3. CASE Create(h) \/ Join(h) \/ Leave(h)
  BY <1>2, <1>3 DEF Create, Join, Leave, Erase
<1>4. ASSUME NEW event \in InputEvent, DispatchMessage(h, event)
      PROVE  Agreeing(id, k)
  <2>1. CASE event.type = "Error"
    BY <1>2, <1>4, <2>1 DEF DispatchMessage, ReceiveInvalid
  <2>2. CASE event.type = "JoinMatchRequest"
    <3>. PICK at, n : at = event.matchID /\ n = event.nickname
      OBVIOUS
    <3>1. at \in MatchID /\ n \in Name
      BY <2>2 DEF InputEvent
    <3>2. CASE JoinMatchRefused(h, at, n)
      BY <1>2, <3>2 DEF JoinMatchRefused
    <3>3. CASE JoinMatch(h, at, n)
      <4>1. matchHandlers' = matchHandlers \cup {<< at, h >>}
        BY <3>3 DEF JoinMatch
      <4>2. CASE id = at /\ k = h
        BY <3>1, <3>3, <4>2, JoinMatchAgrees
      <4>3. CASE ~(id = at /\ k = h)
        <5>1. k \in Seated(id)' => k \in Seated(id)
          BY <4>1, <4>3 DEF Seated
        <5>. QED
          BY <5>1 DEF Agreeing
      <4>. QED
        BY <4>2, <4>3
    <3>. QED
      BY <1>4, <2>2, <3>2, <3>3 DEF DispatchMessage
  <2>3. CASE event.type \in {"Attack", "Offer", "Pass"}
    <3>1. UNCHANGED matchHandlers
      BY <1>4, <2>3 DEF DispatchMessage, Play, Respond
    <3>. QED
      BY <1>2, <3>1
  <2>. QED
    BY <2>1, <2>2, <2>3 DEF InputEvent
<1>. QED
  BY <1>3, <1>4 DEF Calls

(* newMatch() of the client library, given the MatchInfo of joinMatch(),   *)
(* adds one player after the other: whatever it then draws and shuffles,   *)
(* its match runs exactly if the one on the server does.                   *)
THEOREM LibraryIsInStep == ClientsSpec => LibraryAgrees
<1>. DEFINE Step == \A id \in MatchID, h \in Handler : Agreeing(id, h)
<1>1. ClientsSpec => FreshSpec
  <2>1. InitClients => Init
    BY DEF InitClients
  <2>2. [NextClients]_clientVars => [FreshNext]_vars
    BY DEF NextClients, clientVars
  <2>. QED
    BY <2>1, <2>2, PTL DEF ClientsSpec, FreshSpec
<1>2. Seating /\ Room /\ [NextClients]_clientVars => [Step]_clientVars
  BY CallsAgree DEF NextClients, FreshNext
<1>3. ClientsSpec => [][Step]_clientVars
  BY <1>1, <1>2, RoomInvariant, PTL DEF ClientsSpec
<1>. QED
  BY <1>3 DEF LibraryAgrees, Agreeing
=============================================================================
