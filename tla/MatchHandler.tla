---------------------------- MODULE MatchHandler ----------------------------
(***************************************************************************)
(* One MatchHandler (src/Game/MatchHandler.cpp) and the clients that join  *)
(* it, play and leave.  A step is one call the manager makes; it runs to   *)
(* its end before the next one.  ServerManager::joinMatch() starts a match *)
(* in the call that fills it.                                              *)
(***************************************************************************)
EXTENDS Match

CONSTANT OfferAmounts  \* the amounts of gold clients offer

ASSUME OfferAssumption == OfferAmounts \subseteq Int

VARIABLE match

vars == << match >>

Names == NamesOf(match)

IsRunning == match.currentPhase \notin {"WaitForStart", "Finished"}

IsFull == Len(match.players) = NumPlayers

Init == match = NewMatch

-----------------------------------------------------------------------------
Alive == match.fault = "none"

(* A rejected request to join changes nothing, so only the others appear.  *)
Join(n) ==
    /\ Alive /\ ~IsFull /\ ~IsRunning /\ n \notin Names
    /\ LET joined == AddPlayer(match, n)
       IN  IF Len(joined.players) = NumPlayers
           THEN match' \in Starts(joined)
           ELSE match' = joined

Leave(n) ==
    /\ Alive /\ n \in Names
    /\ match' = RemovePlayer(match, n)

Attack(n) ==
    /\ Alive /\ n \in Names
    /\ match' = HandleAttack(match, n)

Offer(n, gold) ==
    /\ Alive /\ n \in Names
    /\ match' = HandleOffer(match, n, gold)

Pass(n) ==
    /\ Alive /\ n \in Names
    /\ match' = HandlePass(match, n)

Input(n) ==
    \/ Attack(n)
    \/ \E gold \in OfferAmounts : Offer(n, gold)
    \/ Pass(n)

Next == \E n \in Name : Join(n) \/ Leave(n) \/ Input(n)

Spec == Init /\ [][Next]_vars

(* Nobody leaves a match that is running.                                  *)
SteadyNext ==
    \E n \in Name : \/ Join(n)
                    \/ ~IsRunning /\ Leave(n)
                    \/ Input(n)

SteadySpec == Init /\ [][SteadyNext]_vars

(* Some player has an input that the match would accept.                   *)
SomeoneCanMove ==
    \E i \in DOMAIN match.players :
        \/ AcceptsAttack(match, i)
        \/ \E gold \in OfferAmounts : AcceptsOffer(match, i, gold)
        \/ AcceptsPass(match, i)

(* A step in which a player makes such an input.                           *)
Rejected(m) == m.updateEvent = Error

Move == \E n \in Name : Input(n) /\ ~Rejected(match')

(* While somebody may move, somebody eventually does: WF_vars(Move), with  *)
(* what enables Move written out.                                          *)
Fairness == []<>~SomeoneCanMove \/ []<><<Move>>_vars

FairSpec == SteadySpec /\ Fairness

-----------------------------------------------------------------------------
(* Properties.                                                             *)

Indices == DOMAIN match.players
PlayerAt(i) == match.players[i]
Winning == {i \in Indices : PlayerAt(i).isWinningAuction}
Tying   == {i \in Indices : PlayerAt(i).isTyingAuction}

(* The match of the code: its fields have the types of its members, every  *)
(* event of its update names a player or nobody, and nobody's gold is ever *)
(* negative although it is a signed int.                                   *)
TypeOK == MatchType(match)

(* No sequence of inputs, entries and exits makes the match panic (a       *)
(* winner who cannot pay what was offered, Player::pay) or touch a card or *)
(* a player that is not there (Table::pop, discard, players[0]).           *)
NoFault == match.fault = "none"

(* The bid on the table stays covered: whoever leads or ties the auction   *)
(* owns at least the gold of the current offer, whatever the others do.    *)
BidCovered ==
    match.currentPhase = "Auction" =>
        \A i \in Winning \cup Tying : match.currentOffer <= PlayerAt(i).gold

(* No card is in two places, or twice in one: the deck, the table, the     *)
(* discards and the hands of the players are disjoint.                     *)
OneHolderPerCard ==
    LET piles == match.deck \o match.cardsInAuction \o match.discarded
    IN  /\ IsInjective(piles)
        /\ \A i \in Indices :
            /\ Owned(PlayerAt(i)) \cap ToSet(piles) = {}
            /\ PlayerAt(i).activeCards
                 \cap PlayerAt(i).purchasedThisTurnCards = {}
            /\ \A j \in Indices \ {i} :
                 Owned(PlayerAt(i)) \cap Owned(PlayerAt(j)) = {}

AllCards ==
    ToSet(match.deck \o match.cardsInAuction \o match.discarded)
        \cup UNION {Owned(PlayerAt(i)) : i \in Indices}

(* No card is lost: only a player who leaves takes cards out of the match. *)
NoCardLost == [][Names \subseteq Names' => AllCards' = AllCards]_vars

(* The steps that broadcast: an input, or the entry that starts the match. *)
Broadcasts == Names' = Names \/ IsFull'

GoldOf(m, n) == m.players[GetPlayerIndex(m, n)].gold

(* The gold of player n for a client that applies the events in order.     *)
Replayed(events, n, before) ==
    LET Apply(gold, e) == IF e.nickname # n THEN gold
                          ELSE CASE e.type = "SetGold" -> e.value
                                 [] e.type = "Earn"    -> gold + e.value
                                 [] e.type = "Pay"     -> gold - e.value
                                 [] OTHER              -> gold
    IN  FoldLeft(Apply, before, events)

(* A client that replays what is broadcast knows the gold of every player: *)
(* the server moves no gold it does not announce with SetGold, Pay or      *)
(* Earn, and announces none it does not move.                              *)
LedgerFollowsBroadcast ==
    [][Broadcasts => \A n \in Names' :
        GoldOf(match', n) = Replayed(match'.updateEvent, n,
            IF n \in Names THEN GoldOf(match, n) ELSE 0)]_vars

(* currentAttack and currentOffer tell the truth about the players: a      *)
(* force or an offer stands exactly when someone holds it, alone as winner *)
(* or, at equal gold, with at least one other.                             *)
LeaderMatchesBid ==
    LET NoLeader  == Winning = {} /\ Tying = {}
        OneWinner == Cardinality(Winning) = 1 /\ Tying = {}
        Tie       == Winning = {} /\ Cardinality(Tying) >= 2
    IN  CASE match.currentPhase = "Attack" ->
                IF match.currentAttack = 0 THEN NoLeader ELSE OneWinner
          [] match.currentPhase = "Auction" ->
                IF match.currentOffer = 0 THEN NoLeader ELSE OneWinner \/ Tie
          [] OTHER -> NoLeader

(* The match never waits for nobody: between two handlers, some player of  *)
(* a match that runs has an input that would be accepted.                  *)
NeverStuck == IsRunning => SomeoneCanMove

(* The match as the auction of its cards.                                  *)
KindOf(m) == CASE m.currentPhase = "Attack"  -> "force"
               [] m.currentPhase = "Auction" -> "gold"
               [] OTHER                      -> "none"

BidOf(m) == CASE m.currentPhase = "Attack"  -> m.currentAttack
              [] m.currentPhase = "Auction" -> m.currentOffer
              [] OTHER                      -> 0

LeaderOf(m) == IF WinnerIndices(m) = {} THEN NoName
               ELSE NameAt(m, GetCurrentWinner(m))

GoldIn(m)  == [n \in NamesOf(m) |-> GoldOf(m, n)]

HandsIn(m) == [n \in NamesOf(m) |-> Owned(m.players[GetPlayerIndex(m, n)])]

Dispute == INSTANCE Auction WITH
    table <- match.cardsInAuction, kind <- KindOf(match), bid <- BidOf(match),
    leader <- LeaderOf(match), gold <- GoldIn(match), hands <- HandsIn(match)

(* The rules, for any players who come and go: each card goes to the one   *)
(* who bid most, who pays the offer, or to nobody on a tie; all earn at    *)
(* the end of a turn; nothing else moves gold or cards (Auction).          *)
SoldToTheLeader == Dispute!Spec

Announced(m) ==
    {m.updateEvent[k].nickname :
        k \in {j \in DOMAIN m.updateEvent : m.updateEvent[j].type = "Winner"}}

MostVictory(m) ==
    LET Victory(i) == GetTotalVictory(m.players[i])
    IN  {NameAt(m, i) : i \in {j \in DOMAIN m.players :
            \A k \in DOMAIN m.players : Victory(k) <= Victory(j)}}

(* The nicknames announced as winners at the end of a match are those of   *)
(* the players with the most victory points, all of them.                  *)
WinnersHaveMostVictory ==
    [][Broadcasts /\ Announced(match') # {} =>
        Announced(match') = MostVictory(match')]_vars

(* A match that has started ends, if its players keep moving: outbidding   *)
(* lets those who tied and passed move again, but not for ever.            *)
MatchEnds == IsRunning ~> ~IsRunning

-----------------------------------------------------------------------------
(* What the comments of the source say of the program.                     *)

(* Player.hpp: a pass is for the rest of the dispute for the card, that    *)
(* is, until the phase or the card changes.                                *)
Passed(m, n) == m.players[GetPlayerIndex(m, n)].hasPassed

PassIsFinal ==
    [][\A n \in Names \cap Names' :
        /\ Passed(match, n)
        /\ match'.currentPhase = match.currentPhase
        /\ match'.cardsInAuction = match.cardsInAuction
        => Passed(match', n)]_vars

(* Match.cpp: the match waits only for players who did not yet attack,     *)
(* offer or pass and can do something (of a match with players left).      *)
WaitsForSomeone ==
    match.players # <<>> =>
        /\ match.currentPhase = "Attack" =>
              ArePossibleAttacks(match, match.currentAttack)
        /\ match.currentPhase = "Auction" =>
              ArePossibleOffers(match, match.currentOffer)
=============================================================================
