------------------------------- MODULE Match -------------------------------
(***************************************************************************)
(* class Match (src/Game/Match.cpp) with its Table and its Deck: the whole *)
(* state of one match is a record, and every method is an operator from    *)
(* the match to the match it leaves behind.  The server runs one handler   *)
(* at a time to its end, so a handler is one step of the modules that use  *)
(* this one.                                                               *)
(*                                                                         *)
(* Between two handlers updateEvent keeps the value the last one returned. *)
(***************************************************************************)
EXTENDS SequencesExt, Player, Events

CONSTANTS
    Card,        \* the cards of the deck the match is created with
    InitialDeck, \* that deck, in the order it is created
    Deals,       \* the orders the shuffles are seen to produce
    NumPlayers, CardsPerTurn, InitialGold,  \* Model::MatchConfig
    AuctioneerGoldDisadvantage

ASSUME DeckAssumption ==
    /\ Card \subseteq CardId
    /\ InitialDeck \in Seq(Card) /\ ToSet(InitialDeck) = Card
    /\ IsInjective(InitialDeck)
    /\ \A deal \in Deals : deal \in Seq(Card)

ASSUME ConfigAssumption ==
    /\ NumPlayers \in Nat \ {0} /\ CardsPerTurn \in Nat \ {0}
    /\ InitialGold \in Nat /\ AuctioneerGoldDisadvantage \in 0..InitialGold

(* What is used of sums over cards: every set of cards has totals.         *)
ASSUME TotalsAssumption ==
    \A S \in SUBSET Card : /\ TotalAttack(S) \in Nat
                           /\ TotalProduction(S) \in Nat
                           /\ TotalVictory(S) \in Nat

Phase == {"WaitForStart", "GameStart", "TurnStart", "Attack", "Auction",
          "TurnEnd", "GameEnd", "Finished"}

NewMatch ==
    [ currentPhase |-> "WaitForStart", players |-> <<>>,
      currentAttack |-> 0, currentOffer |-> 0, currentAuctioneer |-> -1,
      cardsInAuction |-> <<>>, discarded |-> <<>>, deck |-> InitialDeck,
      updateEvent |-> <<>>, fault |-> "none" ]

(* A LOG_PANIC aborts the server; an access out of the bounds of a         *)
(* container is undefined.  Either way nothing of the match is left to     *)
(* speak about: the fault is recorded and nothing runs any more.           *)
Panic(m)     == [m EXCEPT !.fault = "panic"]
Undefined(m) == [m EXCEPT !.fault = "undefined"]

AddEvents(m, events) == [m EXCEPT !.updateEvent = @ \o events]

(* Mutant: the old update is deleted, and no error takes its place.        *)
SetErrorToNothing(m) == [m EXCEPT !.updateEvent = <<>>]

SetError(m) == [m EXCEPT !.updateEvent = Error]

NameAt(m, i) == m.players[i].name

(* The nicknames in a match.                                               *)
NamesOf(m) == {NameAt(m, i) : i \in DOMAIN m.players}

IsPlayer(m, n) == \E i \in DOMAIN m.players : NameAt(m, i) = n

(* Only asked when IsPlayer(m, n); positions count from 1.                 *)
GetPlayerIndex(m, n) ==
    CHOOSE i \in DOMAIN m.players :
        NameAt(m, i) = n /\ \A j \in 1..(i - 1) : NameAt(m, j) # n

ApplyToPlayers(ps, Func(_)) == [i \in DOMAIN ps |-> Func(ps[i])]

(* Mutant: the winner so far keeps winning beside the new tying player.    *)
SetNewAuctionTieBesideWinner(ps, newTying) ==
    [ps EXCEPT ![newTying] = SetInAuctionTie(@)]

SetNewAuctionTie(ps, newTying) ==
    [i \in DOMAIN ps |->
        IF ps[i].isWinningAuction \/ i = newTying
        THEN SetInAuctionTie(ps[i]) ELSE ps[i]]

(* Mutant: who was winning before still is.                                *)
SetNewAuctionWinnerBesideLast(ps, auctionWinner) ==
    [ps EXCEPT ![auctionWinner] = SetAuctionWinner(@)]

SetNewAuctionWinner(ps, auctionWinner) ==
    LET Outbid(p) == IF p.isWinningAuction \/ p.isTyingAuction
                     THEN ResetAuctionState(p) ELSE p
    IN  [i \in DOMAIN ps |->
            IF i = auctionWinner THEN SetAuctionWinner(Outbid(ps[i]))
                                 ELSE Outbid(ps[i])]

ArePossibleAttacks(m, amount) ==
    \E i \in DOMAIN m.players : CanAttack(m.players[i], amount)

ArePossibleOffers(m, amount) ==
    \E i \in DOMAIN m.players : CanOffer(m.players[i], amount)

IsThereWinner(m) ==
    \/ m.currentPhase = "Attack" /\ m.currentAttack # 0
    \/ m.currentPhase = "Auction" /\ m.currentOffer # 0

WinnerIndices(m) == {i \in DOMAIN m.players : m.players[i].isWinningAuction}

(* Asked only when WinnerIndices(m) is not empty.                          *)
GetCurrentWinner(m) ==
    CHOOSE i \in WinnerIndices(m) : \A j \in WinnerIndices(m) : i <= j

-----------------------------------------------------------------------------
(* The methods of the phases.  The call of processPhase each one ends with *)
(* is the next step of ProcessPhase, below.                                *)

(* The shuffles of a deck: any order of its cards, of those in Deals.      *)
Shuffles(deck) ==
    {deck} \cup {d \in Deals : Len(d) = Len(deck) /\ ToSet(d) = ToSet(deck)}

(* Mutant: the loop that sets the initial gold skips the auctioneer.       *)
StartingGoldOfOthers(i, a) ==
    IF i = a THEN 0 - AuctioneerGoldDisadvantage ELSE InitialGold

StartingGold(i, a) ==
    IF i = a THEN InitialGold - AuctioneerGoldDisadvantage ELSE InitialGold

(* The auctioneer a and the order d of the deck are the random choices.    *)
OnGameStartPhase(m, a, d) ==
    LET ps == [i \in DOMAIN m.players |->
                 [m.players[i] EXCEPT !.gold = StartingGold(i, a)]]
        SetGold == [i \in DOMAIN ps |->
                      Event("SetGold", ps[i].name, ps[i].gold)]
    IN  [AddEvents(m, << Event("IsAuctioneer", NameAt(m, a), 0) >> \o SetGold)
            EXCEPT !.currentAuctioneer = a - 1, !.players = ps, !.deck = d,
                   !.currentPhase = "TurnStart"]

(* Mutant: one card too few is still enough for a turn.                    *)
CanDrawAlmost(deck) == Len(deck) + 1 >= CardsPerTurn

CanDraw(deck) == Len(deck) >= CardsPerTurn

(* Cards are drawn from the end of the deck; Deck::draw() panics when none *)
(* is left.                                                                *)
OnTurnStartPhase(m) ==
    LET left  == Len(m.deck) - CardsPerTurn
        drawn == Reverse(SubSeq(m.deck, left + 1, Len(m.deck)))
        table == m.cardsInAuction \o drawn
    IN  IF ~CanDraw(m.deck) THEN [m EXCEPT !.currentPhase = "GameEnd"]
        ELSE IF left < 0 THEN Panic(m)
        ELSE [AddEvents(m, [i \in DOMAIN table |->
                                Event("Draw", NoName, table[i])])
                EXCEPT !.deck = SubSeq(@, 1, left), !.cardsInAuction = table,
                       !.currentPhase = "Attack"]

(* The end of the dispute for a card, won by nobody or by force.           *)
OnAttackPhase(m) ==
    LET w == GetCurrentWinner(m)
        won == IsThereWinner(m) /\ WinnerIndices(m) # {}
        ps == IF won
              THEN [m.players EXCEPT ![w] = AddCard(@, Head(m.cardsInAuction))]
              ELSE m.players
        table == IF won THEN Tail(m.cardsInAuction) ELSE m.cardsInAuction
    IN  IF won /\ m.cardsInAuction = <<>> THEN Undefined(m)
        ELSE [m EXCEPT
                !.players = ApplyToPlayers(ps, ResetAuctionState),
                !.cardsInAuction = table,
                !.updateEvent = IF won
                    THEN Append(@, Event("GetCard", NameAt(m, w), 0)) ELSE @,
                !.currentPhase = IF ~won THEN "Auction"
                                 ELSE IF table = <<>> THEN "TurnEnd"
                                 ELSE "Attack",
                !.currentAttack = 0]

(* The end of the dispute for a card, sold or (tie, no offer) discarded.   *)
OnAuctionPhase(m) ==
    LET w == GetCurrentWinner(m)
        sold == IsThereWinner(m) /\ WinnerIndices(m) # {}
        ps == IF sold
              THEN [m.players EXCEPT ![w] =
                       Pay(AddCard(@, Head(m.cardsInAuction)),
                           m.currentOffer)]
              ELSE m.players
        table == Tail(m.cardsInAuction)
        events == << Event("Pay", NameAt(m, w), m.currentOffer),
                     Event("GetCard", NameAt(m, w), 0) >>
    IN  IF m.cardsInAuction = <<>> THEN Undefined(m)
        ELSE IF sold /\ m.currentOffer > m.players[w].gold THEN Panic(m)
        ELSE [m EXCEPT
                !.players = ApplyToPlayers(ps, ResetAuctionState),
                !.cardsInAuction = table,
                !.discarded = IF sold THEN @
                              ELSE Append(@, Head(m.cardsInAuction)),
                !.updateEvent = IF sold THEN @ \o events ELSE @,
                !.currentPhase = IF table = <<>> THEN "TurnEnd" ELSE "Attack",
                !.currentOffer = 0]

(* Mutant: the auctioneer is announced before it changes.                  *)
NextAuctioneerEarly(m) ==
    LET next == IF m.currentAuctioneer + 1 >= Len(m.players) THEN 0
                ELSE m.currentAuctioneer + 1
        last == IF next = 0 THEN Len(m.players) ELSE next
    IN  [AddEvents(m, << Event("IsAuctioneer", NameAt(m, last), 0) >>)
            EXCEPT !.currentAuctioneer = next]

(* Positions count from 0 in currentAuctioneer.                            *)
NextAuctioneer(m) ==
    LET next == IF m.currentAuctioneer + 1 >= Len(m.players) THEN 0
                ELSE m.currentAuctioneer + 1
    IN  [AddEvents(m, << Event("IsAuctioneer", NameAt(m, next + 1), 0) >>)
            EXCEPT !.currentAuctioneer = next]

OnTurnEndPhase(m) ==
    LET Produce(p) == Earn(OnTurnEnd(p), GetTotalProduction(OnTurnEnd(p)))
        ps == ApplyToPlayers(m.players, Produce)
        earn == [i \in DOMAIN ps |->
                    Event("Earn", ps[i].name, GetTotalProduction(ps[i]))]
        paid == [AddEvents(m, earn) EXCEPT !.players = ps]
    IN  IF m.players = <<>> THEN Undefined(m)
        ELSE [NextAuctioneer(paid) EXCEPT !.currentPhase = "TurnStart"]

(* Mutant: a player with as much victory as the first replaces the winners.*)
WinnersOfLastTie(ps) ==
    LET victory == [i \in DOMAIN ps |-> GetTotalVictory(ps[i])]
        winners[i \in 0..Len(ps)] ==
            IF i = 0 THEN <<>>
            ELSE IF victory[i] >= victory[1] THEN << i >>
            ELSE winners[i - 1]
    IN  winners[Len(ps)]

(* The scan for the winners never raises maxVictory from the victory of    *)
(* the first player: winners[i] is the vector after the first i players.   *)
WinnersOf(ps) ==
    LET victory == [i \in DOMAIN ps |-> GetTotalVictory(ps[i])]
        winners[i \in 0..Len(ps)] ==
            IF i = 0 THEN <<>>
            ELSE IF victory[i] > victory[1] THEN << i >>
            ELSE IF victory[i] = victory[1] THEN Append(winners[i - 1], i)
            ELSE winners[i - 1]
    IN  winners[Len(ps)]

OnGameEndPhase(m) ==
    LET winners == WinnersOf(m.players)
    IN  IF m.players = <<>> THEN Undefined(m)
        ELSE [AddEvents(m, [k \in DOMAIN winners |->
                                Event("Winner", NameAt(m, winners[k]), 0)])
                EXCEPT !.currentPhase = "Finished"]

(* A match at rest: the phase method would return and change nothing, or   *)
(* there is nothing left to run.                                           *)
Resting(m) ==
    \/ m.fault # "none"
    \/ m.currentPhase \in {"WaitForStart", "Finished"}
    \/ m.currentPhase = "Attack" /\ ArePossibleAttacks(m, m.currentAttack)
    \/ m.currentPhase = "Auction" /\ ArePossibleOffers(m, m.currentOffer)

(* PhaseHandler::processPhase().                                           *)
OnCurrentPhase(m) ==
    CASE m.currentPhase = "TurnStart" -> OnTurnStartPhase(m)
      [] m.currentPhase = "Attack"    -> OnAttackPhase(m)
      [] m.currentPhase = "Auction"   -> OnAuctionPhase(m)
      [] m.currentPhase = "TurnEnd"   -> OnTurnEndPhase(m)
      [] m.currentPhase = "GameEnd"   -> OnGameEndPhase(m)

OnPhase(m) == IF Resting(m) THEN m ELSE OnCurrentPhase(m)

(* The phase methods call one another; the longest chain ends a card, the  *)
(* turn, draws, finds that nobody can attack and opens an auction.         *)
ProcessPhase(m) == OnPhase(OnPhase(OnPhase(OnPhase(OnPhase(m)))))

-----------------------------------------------------------------------------
(* The handlers of the input events, and the entry and exit of players.    *)

AddPlayer(m, n) == [m EXCEPT !.players = Append(@, NewPlayer(n))]

RemovePlayer(m, n) ==
    IF IsPlayer(m, n)
    THEN [m EXCEPT !.players = RemoveAt(@, GetPlayerIndex(m, n))]
    ELSE Panic(m)

(* start() does not clear updateEvent: what is left of it after its last   *)
(* value was moved out still is an Error if it was one, and then it is the *)
(* first event of the new Complex; a moved-out Complex is empty.           *)
MovedFrom(events) ==
    IF events = Error THEN events ELSE <<>>

Starts(m) ==
    { ProcessPhase(OnGameStartPhase(
          [m EXCEPT !.updateEvent = MovedFrom(@)], a, d)) :
        a \in DOMAIN m.players, d \in Shuffles(m.deck) }

(* When an input of player i is accepted.                                  *)
AcceptsAttack(m, i) ==
    m.currentPhase = "Attack" /\ CanAttack(m.players[i], m.currentAttack)

(* Mutant: a player who ties may offer the same amount again.              *)
AcceptsOfferTwice(m, i, gold) ==
    /\ m.currentPhase = "Auction"
    /\ gold > 0 /\ m.currentOffer <= gold /\ CanOffer(m.players[i], gold)

AcceptsOffer(m, i, gold) ==
    /\ m.currentPhase = "Auction"
    /\ gold > 0 /\ m.currentOffer <= gold /\ CanOffer(m.players[i], gold)
    /\ m.currentOffer < gold \/ ~m.players[i].isTyingAuction

AcceptsPass(m, i) ==
    m.currentPhase \in {"Attack", "Auction"} /\ CanPass(m.players[i])

(* The branch for an equal attack is dead code: canAttack() demands more.  *)
HandleAttack(m, n) ==
    LET i == GetPlayerIndex(m, n)
        amount == GetTotalAttack(m.players[i])
        ps == [m.players EXCEPT ![i].hasAttacked = TRUE]
    IN  IF ~IsPlayer(m, n) THEN Panic(m)
        ELSE IF ~AcceptsAttack(m, i) THEN SetError(m)
        ELSE ProcessPhase([m EXCEPT
                !.players = IF m.currentAttack < amount
                            THEN SetNewAuctionWinner(ps, i)
                            ELSE SetNewAuctionTie(ps, i),
                !.currentAttack = IF @ < amount THEN amount ELSE @,
                !.updateEvent = << Event("Attack", n, 0) >>])

HandleOffer(m, n, gold) ==
    LET i == GetPlayerIndex(m, n)
    IN  IF ~IsPlayer(m, n) THEN Panic(m)
        ELSE IF ~AcceptsOffer(m, i, gold) THEN SetError(m)
        ELSE ProcessPhase([m EXCEPT
                !.players = IF m.currentOffer < gold
                            THEN SetNewAuctionWinner(@, i)
                            ELSE SetNewAuctionTie(@, i),
                !.currentOffer = gold,
                !.updateEvent = << Event("Offer", n, gold) >>])

HandlePass(m, n) ==
    LET i == GetPlayerIndex(m, n)
    IN  IF ~IsPlayer(m, n) THEN Panic(m)
        ELSE IF ~AcceptsPass(m, i) THEN SetError(m)
        ELSE ProcessPhase([m EXCEPT
                !.players[i].hasPassed = TRUE,
                !.updateEvent = << Event("Pass", n, 0) >>])

-----------------------------------------------------------------------------
(* The types of all this.                                                  *)

PlayerType ==
    [ name : Name, gold : Nat,
      activeCards : SUBSET Card, purchasedThisTurnCards : SUBSET Card,
      isWinningAuction : BOOLEAN, isTyingAuction : BOOLEAN,
      hasPassed : BOOLEAN, hasAttacked : BOOLEAN ]

MatchType(m) ==
    m \in [ currentPhase : Phase, players : Seq(PlayerType),
            currentAttack : Nat, currentOffer : Nat,
            currentAuctioneer : Nat \cup {-1},
            cardsInAuction : Seq(Card), discarded : Seq(Card),
            deck : Seq(Card), updateEvent : Seq(Update),
            fault : {"none", "panic", "undefined"} ]
=============================================================================
