------------------------------ MODULE Clients ------------------------------
(***************************************************************************)
(* What the clients make of the messages of ServerManager: the web client  *)
(* (client_/) keeps a copy of its match by the events it is sent, and the  *)
(* C++ client library (src/EmscriptenBindings.cpp) builds a MatchHandler   *)
(* from the MatchInfo.  A client reads its messages in the order they were *)
(* sent (WebsocketSession), so what it shows once it has read them all is  *)
(* kept here with the call that sends them.                                *)
(***************************************************************************)
EXTENDS ServerManager

VARIABLE client  \* the Match of client_/Match.js of every open session

clientVars == << vars, client >>

(* client_/Match.js: players is a dictionary by nickname; deck, a          *)
(* dictionary of the cards of the MatchInfo, is the set of its keys.       *)
(* auctioneer is the one player with isAuctioneer; what is written and     *)
(* never read (currentAttack, currentOffer, hasPassed) is left out.        *)
(* thrown: a callback read a player or a card that is not there, or gave   *)
(* away a card with none in play (JavaScript lets that pass until the hand *)
(* is read); from then on the client is not looked at.                     *)
ClientMatch(players, deck) ==
    [ players |-> players, deck |-> deck, inPlay |-> <<>>,
      auctioneer |-> NoName, thrown |-> FALSE ]

(* client_/Player.js: its gold is null (here 0) until it is set.           *)
ClientPlayer == [gold |-> 0, cards |-> <<>>]

NoMatch == ClientMatch(<< >>, {})

Throws(c) == [c EXCEPT !.thrown = TRUE]

Changes(c, n, Player(_)) ==
    IF n \in DOMAIN c.players THEN [c EXCEPT !.players[n] = Player(@)]
                              ELSE Throws(c)

(* Mutant: gold is set to what is earned.                                  *)
OnEarnOnly(c, n, gold) == Changes(c, n, LAMBDA p : [p EXCEPT !.gold = gold])

OnEarn(c, n, gold) == Changes(c, n, LAMBDA p : [p EXCEPT !.gold = @ + gold])

OnPay(c, n, gold) == Changes(c, n, LAMBDA p : [p EXCEPT !.gold = @ - gold])

OnSetGold(c, n, gold) == Changes(c, n, LAMBDA p : [p EXCEPT !.gold = gold])

OnDraw(c, card) ==
    IF card \in c.deck THEN [c EXCEPT !.inPlay = Append(@, card)]
                       ELSE Throws(c)

(* Mutant: the last card in play is taken.                                 *)
OnGetLastCard(c, n) ==
    IF c.inPlay = <<>> THEN Throws(c)
    ELSE [Changes(c, n, LAMBDA p : [p EXCEPT !.cards =
              Append(@, c.inPlay[Len(c.inPlay)])])
            EXCEPT !.inPlay = SubSeq(@, 1, Len(@) - 1)]

OnGetCard(c, n) ==
    IF c.inPlay = <<>> THEN Throws(c)
    ELSE [Changes(c, n, LAMBDA p : [p EXCEPT !.cards =
              Append(@, Head(c.inPlay))])
            EXCEPT !.inPlay = Tail(@)]

OnIsAuctioneer(c, n) ==
    IF n \in DOMAIN c.players THEN [c EXCEPT !.auctioneer = n] ELSE Throws(c)

(* getTotalAttack() reduces the cards of the player without a first value. *)
OnAttack(c, n) ==
    IF n \in DOMAIN c.players /\ c.players[n].cards # <<>> THEN c ELSE Throws(c)

OnPass(c, n) == IF n \in DOMAIN c.players THEN c ELSE Throws(c)

OnJoinMatch(c, n) ==
    [c EXCEPT !.players =
        [k \in DOMAIN @ \cup {n} |-> IF k = n THEN ClientPlayer ELSE @[k]]]

OnMatchInfo(e) ==
    ClientMatch([n \in ToSet(e.players) |-> ClientPlayer], ToSet(e.deck))

(* EventDispatcher and its callbacks; onLeave and onWinner are to do.      *)
DispatchEvent(c, e) ==
    IF c.thrown THEN c
    ELSE CASE e.type = "Draw"            -> OnDraw(c, e.value)
           [] e.type = "MatchInfo"       -> OnMatchInfo(e)
           [] e.type = "GetCard"         -> OnGetCard(c, e.nickname)
           [] e.type = "Pay"             -> OnPay(c, e.nickname, e.value)
           [] e.type = "Earn"            -> OnEarn(c, e.nickname, e.value)
           [] e.type = "JoinMatchResult" -> OnJoinMatch(c, e.nickname)
           [] e.type = "Attack"          -> OnAttack(c, e.nickname)
           [] e.type \in {"Pass", "Offer"} -> OnPass(c, e.nickname)
           [] e.type = "IsAuctioneer"    -> OnIsAuctioneer(c, e.nickname)
           [] e.type = "SetGold"         -> OnSetGold(c, e.nickname, e.value)
           [] OTHER                      -> c

(* A session that closes takes its client's match with it.                 *)
OnMessages ==
    client' = [h \in Handler |->
        IF sessions'[h] # "open" THEN NoMatch
        ELSE FoldLeft(DispatchEvent, client[h], FlattenSeq(sentMessages'[h]))]

InitClients == Init /\ client = [h \in Handler |-> NoMatch]

NextClients == FreshNext /\ OnMessages

ClientsSpec == InitClients /\ [][NextClients]_clientVars

-----------------------------------------------------------------------------
(* MatchHandler::addPlayer() takes no player into a match that is full, or *)
(* that runs, nor one whose nickname is taken.                             *)
Admits(m, n) ==
    /\ Len(m.players) # NumPlayers
    /\ m.currentPhase \in {"WaitForStart", "Finished"}
    /\ n \notin NamesOf(m)

(* Mutant: a match that is full now does not start.                        *)
AddPlayerOnly(built, n) ==
    {IF Admits(m, n) THEN AddPlayer(m, n) ELSE m : m \in built}

(* newMatch() of EmscriptenBindings.cpp: the matches it may build, adding  *)
(* the players of a MatchInfo one by one to a match of that deck.  Its     *)
(* MatchHandler has a NoopManager, which sends nothing.                    *)
AddPlayerAndStart(built, n) ==
    UNION { LET joined == IF Admits(m, n) THEN AddPlayer(m, n) ELSE m
            IN  IF Len(joined.players) = NumPlayers THEN Starts(joined)
                                                    ELSE {joined}
            : m \in built }

NewMatches(info) ==
    FoldLeft(AddPlayerAndStart, {[NewMatch EXCEPT !.deck = info.deck]},
             info.players)

-----------------------------------------------------------------------------
(* Properties.                                                             *)

(* client[h].players[n] is asked of players of the match h is in.          *)
Follows(Agrees(_, _, _)) ==
    \A id \in MatchID : \A h \in Seated(id) :
        IsRunning(id) =>
            \A i \in DOMAIN matches[id].players :
                Agrees(client[h], matches[id], i)

(* Whoever joins, before or after, a client in a match has been told of    *)
(* every player in it, itself included.                                    *)
KnowsPlayers ==
    \A id \in MatchID : \A h \in Seated(id) :
        Players(id) \subseteq DOMAIN client[h].players

(* The gold a web client shows of every player of its match is the gold    *)
(* the player has: no message that moves gold is missed by those who join  *)
(* late, told twice, or told of the wrong player.                          *)
KnowsGold ==
    Follows(LAMBDA c, m, i : c.players[NameAt(m, i)].gold = m.players[i].gold)

(* Until a card is discarded (which no event tells) a web client gives     *)
(* every card to the player who got it, and shows the cards in auction.    *)
KnowsCards ==
    Follows(LAMBDA c, m, i : m.discarded = <<>> =>
        /\ c.inPlay = m.cardsInAuction
        /\ IsInjective(c.players[NameAt(m, i)].cards)
        /\ ToSet(c.players[NameAt(m, i)].cards) = Owned(m.players[i]))

(* The auctioneer a web client shows is the server's, as long as the       *)
(* players it knows of are still there: those who leave are not told of,   *)
(* and shift the players behind the index of the server's auctioneer.      *)
KnowsAuctioneer ==
    Follows(LAMBDA c, m, i :
        DOMAIN c.players = {NameAt(m, j) : j \in DOMAIN m.players} =>
            c.auctioneer = NameAt(m, m.currentAuctioneer + 1))

(* No message makes a web client read a player, a card or a hand that is   *)
(* not there, in whatever order clients join, play, leave and join again.  *)
NeverThrows == \A h \in Open : ~client[h].thrown

(* The match the client library builds from the MatchInfo a client is sent *)
(* runs exactly if the match it joined runs then.                          *)
LibraryAgrees ==
    [][\A id \in MatchID, h \in Handler :
        h \in Seated(id)' \ Seated(id) =>
            \A built \in NewMatches(sentMessages'[h][1][1]) :
                (built.currentPhase \in {"WaitForStart", "Finished"})
                    <=> ~IsRunning(id)']_clientVars

-----------------------------------------------------------------------------
(* What the comments of the source say of the program.                     *)

(* OutputEvent.hpp: toOutputEvent() returns the event of a message, of all *)
(* those toMessage() makes.                                                *)
RoundTrip ==
    \A h \in Handler : \A k \in DOMAIN sentMessages[h] :
        ToOutputEvent(ToMessage(sentMessages[h][k])) = sentMessages[h][k]
=============================================================================
