# Espada Negra: specifications

TLA+ models of the server of Espada Negra, an auction game for two or more
players over websockets, their model-checking configurations, and proofs. Paths
are relative to the root of the repository; file names without a directory are
those of `src/`.

## 1. The system

One process, one thread: `Server::run()` runs the `io_context`, and every
handler (a connection accepted, a message read, a message written) runs to its
end before the next one starts. All interleavings are interleavings of handlers.

| Part | State | Operations | Talks to |
|---|---|---|---|
| Card database (`Model/Card*`) | models, cards by id | lookups | |
| `Model::Player` | gold, two hands of cards, four flags of the dispute | earn, pay, attack, pass, become winner or tie, end of turn | |
| `Deck`, `Table` | cards to draw, cards on the table, discards | shuffle, draw, pop, discard | |
| `Match`, `PhaseHandler` | phase, players, current attack and offer, auctioneer, `updateEvent` | one input handler per event, one method per phase (they call one another), add and remove players, start | calls Player, Deck, Table |
| `MatchHandler` | one match, its size | add and remove a player, start, handle an event | calls `ServerManager::broadcast` back |
| `ServerManager` | matches by id; match and nickname of every session (by its address); sessions of every match | `join`, `leave`, `dispatchMessage`, `broadcast` | called by sessions, calls `sendMessage` of others |
| `WebsocketSession` | a read in progress, a queue, a write in progress | `onAccept`, `onRead`, `onWrite`, `sendMessage`; the destructor leaves | called by the `io_context` and the manager |
| `Listener`, `Server` | the acceptor, an accept in progress | accept, stop on a signal | creates sessions |
| `Events` | none | JSON to and from events | |
| Web client (`client_/`) | its copy of the match | one callback per event | sent messages by the manager, through its session |
| Emscripten bindings | a match of the client library | `newMatch`, `toEvent` | calls `MatchHandler`, `Events` |
| Vue client, logging, build | | | not modelled, section 8 |

What is hard, and what makes each part correct:

* **Match.** A handler runs a chain of phase methods that ends when somebody is
  awaited or the match is over. The current bid is stored in the match and who
  holds it in every player; an offer is paid several steps after it was made;
  cards pass from the deck to the table to a hand or the discards. Right means:
  leaders agree with the bid, an offer stays covered, no card is lost or
  doubled, nobody waits for nobody, the game ends, the winners are the winners.
* **Exits.** Players leave at any moment, also in a running match, and a
  finished match takes players again over what is left of its deck. The code
  adjusts no index and processes no phase. Right means: nothing panics, nothing
  is accessed out of bounds.
* **Manager.** Three maps and the players of a match change together; a client
  that joins is broadcast before it is registered, told who plays after, and may
  start the match in the same call. Keys are addresses, which are reused. Right
  means: the maps agree with the matches, all clients of a match see the same.
* **Session.** Messages arrive while others are written and errors end reads and
  writes independently. Right means: one write at a time, in order, nothing
  forgotten, nothing after a gap, and a closed client leaves.
* **Server.** The manager keeps plain pointers to sessions whose lifetime the
  operations in progress decide. Right means: no pointer outlives its session,
  whatever ends first, and whoever is gone is out of its match in the end.
* **Client.** A client knows the match by the events alone. Right means: players,
  gold, cards and auctioneer are those of the server, and no event refers to what
  the client does not have.

`PROJECT.json` lists each hazard at its line with the properties meant for it.

## 2. The modules

| Module | Models | Role |
|---|---|---|
| `Cards`, `Player` | `Model/CardModel.cpp`, `Card.cpp`, `Player.cpp` | operators |
| `Events` | `Events/OutputEvent.*`, `Common.hpp` | events, their JSON and back, as operators |
| `Match` | `Game/Match.cpp`, `PhaseHandler.cpp`, `Table.cpp`, `Model/Deck.cpp` | a match as a record; each method an operator from the match to the match it leaves |
| `MatchHandler` | `Game/MatchHandler.cpp` | variable `match`; one action per call of the manager |
| `Auction` | what a match promises of its cards and gold | abstract specification, implemented by `MatchHandler` |
| `ServerManager` | `Manager/ServerManager.cpp` | composes any number of matches with sessions |
| `MatchCalls` | the calls of the manager to its matches | one `INSTANCE MatchHandler` per match id, for the run `Clients` |
| `Clients` | `client_/*.js`, `EmscriptenBindings.cpp` | composes `ServerManager` with what every client makes of its messages |
| `WebsocketSession` | `IO/WebsocketSession.cpp` | one session, its queue and its operations in progress |
| `MessageChannel` | what a session promises | abstract specification, implemented by `WebsocketSession` |
| `Server` | `IO/Listener.cpp`, `Server.cpp`, `WebsocketSession.cpp` | composes `ServerManager` with the listener and a session per client; implements one `INSTANCE WebsocketSession` per client |
| `MCMatchHandler`, `MCServerManager`, `MCClients`, `MCServer` | | small instances |
| `Match_proofs`, `Piles_proofs`, `MatchHandler_proofs`, `Auction_proofs`, `ServerManager_proofs`, `WebsocketSession_proofs`, `Server_proofs`, `Clients_proofs` | | theorems |

How the code becomes state and actions:

* A **match** is a record with the names of the code's members. The phase
  methods end in a call of `processPhase()`; here each is an operator
  without that call and `ProcessPhase` applies `OnPhase` five times, which is
  the identity on a match at rest. That five are enough is proved (`RestsInFour`
  in `Match_proofs`).
* `updateEvent` is the sequence of events: empty is `monostate`, one event is
  itself, several are a `Complex`. Each event keeps its kind, its player and its
  gold or card. What `start()` finds in it after the last value was moved out is
  the operator `MovedFrom`.
* A **panic** (it aborts the process) and an access out of bounds set the field
  `fault`; nothing runs after it.
* Random choices (auctioneer, shuffle) are nondeterministic; the orders of the
  deck are those of the constant `Deals`.
* The two hands of a player are sets: sums do not depend on the order of cards.
  A card could only be doubled by being dealt to a hand that holds it already;
  `OneHolderPerCard` says that no card in the deck or on the table is in a hand.
* Integers are unbounded. The 48 cards of the deck bound attack, production and
  gold far below the 31 bits of an `int`, except an offer, which is read from
  JSON and compared with the gold before it is stored.
* `MatchHandler` maps to **Auction** thus: `table` is `cardsInAuction`; `kind` is
  force or gold by the phase, and none outside a dispute; `bid` is the current
  attack or offer; `leader` the nickname of the player who wins, or nobody;
  `gold` and `hands` are functions by nickname, where the code has positions that
  move when somebody leaves. What a set of cards is worth is a parameter.
* A refused request to join (a session in no match) is an action of
  `ServerManager` only: it changes no match.
* **Sessions** of `ServerManager` are `none`, `accepting` or `open`; a session
  may be destroyed in either state (`Leave`). `sentMessages` is what the last
  call sent to each.
* A **client** of `Clients` is the `Match` of `client_/Match.js`: `players` by
  nickname with gold and cards, the cards in play, who is auctioneer. Fields that
  are written and never read are left out. A session delivers in order
  (`MessageChannel`), so what a client shows once it has read all it was sent is
  computed in the step that sends it. A read of a player or card that is not
  there sets `thrown`, and so does a `GetCard` with no card in play, which is
  stricter than JavaScript: that fails only once the hand is read.
* **WebsocketSession** has a flag per operation in progress. The destructor runs
  when the last of them ends (`DestroyIfIdle`), because each holds a shared
  pointer. `out.writing` is a sequence, so that a second concurrent write can be
  told from the first. `Message` has two values and the manager is free in what
  it sends and when.
* **Server** has the variables of `ServerManager` and, for every address, the
  read, queue and write of a session; one action per handler, each with the calls
  of the manager it makes and the destruction of the session if it was the last.
  The messages are all alike there. What `WebsocketSession` calls `sent`,
  `delivered` and `failed` is computed from the queue and a count of what was
  written. A signal drops every handler; the sessions are then destroyed one by
  one in any order (`Teardown`).
* **Events**: a JSON object is a record of its keys. Texts nothing depends on are
  empty.

## 3. The runs

Passing runs:

| Run | Instance | Shows |
|---|---|---|
| `TwoPlayers` | 2 players, 8 cards in 2 orders, 4 a turn (the size of the real server's matches), gold 2 and 1, offers 0..2 | `LeaderMatchesBid`: a bid stands exactly when one player wins or two or more tie. `NeverStuck`: a running match always has an acceptable input. `WinnersHaveMostVictory`. |
| `Leaves` | 3 nicknames, matches of 3, 5 cards, 2 a turn (one card is left over), everyone may leave and return at any time | `TypeOK`, `NoFault`, `BidCovered`, `OneHolderPerCard`, `NoCardLost`, `LedgerFollowsBroadcast`: replaying the broadcast events gives the server's gold, and `SoldToTheLeader`: the match implements `Auction`. |
| `MatchEnds` | 3 players, 4 cards, 2 a turn, equal gold so that ties of two and three happen | `MatchEnds` under the fairness of section 4; `LeaderMatchesBid` again, with three. |
| `WebsocketSession` | 2 messages, at most 5 sent | the session implements `MessageChannel` (`InOrder`), `OneWriteOfTheFront`, `NothingAfterFailure`, `SentIsDelivered`, `ClosedLeaves`. |
| `Clients` | 3 addresses, 2 matches of 2, 2 nicknames, 4 cards, 2 a turn | `TypeOK`, by which no client is sent an empty update. `SeatsArePlayers`: seats and players correspond. `ClientsInStep`: all clients of a match are sent the same by a call, or one is refused and the match is untouched. `CallsAreExpected`: projected on each match, the manager is a behaviour of `MatchHandler`. `KnowsPlayers`, `KnowsGold`, `KnowsCards`, `KnowsAuctioneer`: what a web client shows is what the server holds. `NeverThrows`: no event refers to what a client does not have. `LibraryAgrees`: the match built by the client library from a `MatchInfo` runs when the server's does. |
| `Server` | 2 addresses, 1 match of 2, 1 card, at most 4 messages to a session | `PointersValid`: every session the manager may broadcast to is kept alive by an operation in progress. `SessionsAsSpecified`: each session, in the whole server, is a behaviour of `WebsocketSession`. `GoneLeave`: a client that closed, was lost or is there at the signal is out of its match in the end. |

`KnowsCards` stops at the first discard of a match: no event tells of it, and from
then on `client_/Match.js:26` gives the next buyer the card that was discarded.
`KnowsAuctioneer` is stated while no player the client knows of has left: the
server erases the player, and its index of the auctioneer then means another.

`WinnersHaveMostVictory` is an action property of the step that broadcasts the
winners. It holds for the two players of the real server (`TwoPlayers`) and
fails for three (`ThreeWinners`), which `MatchHandler`'s second constructor
allows.

Runs that show where the code does not do what it or its comments say, one
property each (details in `PROJECT.json`, findings):

| Run | What happens |
|---|---|
| `PassIsFinal` | being outbid undoes a pass (`Match.cpp:70`, `Player.hpp:49`, `69-70`) |
| `ThreeWinners` | the maximum is never raised in the scan for winners (`Match.cpp:429`) |
| `LeaveStalls` | an exit does not process the phase (`Match.cpp:149`): if everyone who stays leads or has passed, which is enough with two players, nobody can do anything and the match stalls for good |
| `ReusedAddress` | `handlerMatch` keeps a destroyed session (`ServerManager.cpp:22-39`) |
| `RoundTrip` | `toOutputEvent()` makes an Error of every Complex and of Pay, and nothing of six other events (`OutputEvent.cpp:115-217`, `OutputEvent.hpp:120-136`) |
| `WorksUntilSignal` | a failed accept ends the chain of accepts (`Listener.cpp:72`, `Server.hpp:13`, `18`) |

Divergences met while modelling that no run shows, since they can be read off the
code: `canAttack()` refuses equal attack (`Player.cpp:85`) where `Player.hpp:55`
says "equal or more", so the tie of attackers (`Match.cpp:179`) is dead code;
`start()` does not clear an Error left by a move before the start, which is then
broadcast as the first event of the start (`Match.cpp:155`, `MovedFrom` in
`Match`); no `Leave` is ever sent (`MatchHandler.cpp:64`, `OutputEvent.hpp:46`).

**Bounds.** Offers stop at the constant `OfferAmounts`, whose highest amount is
at least the gold a player needs to outbid everyone who starts; offers of 0 and
offers beyond somebody's gold are among them. Decks are chosen card by card so
that the interesting things happen: force in the first turn to attack with in the
second, equal and different force, production, victory points that differ and
tie, cards left over. Two turns are enough for everything that passes from one
turn to the next (hands become active, gold is earned, the auctioneer moves) and
the end of the deck. Three players are needed for ties with an outbidder and for
the scan for winners. `MaxMessages` = 5 is enough for a queue of three behind a
write, with broadcasts before and after the failure of a read. Three sessions
over two matches let one match start while the third session joins the other,
leaves, or asks for a match that is full or a nickname that is taken; a place that
becomes free is taken by a client who has to be told of a player already there.
Four cards give every client a hand to lose track of. In `Server` one card and
four messages let both clients join, the match start and one move be broadcast,
with a message waiting behind a write when either connection fails. Nicknames,
addresses and match ids are symmetric in the runs for safety; runs with liveness
use no symmetry.

**Deadlock** is checked except where the system really stops: in `Leaves` a match
emptied while it runs takes no more players; in `Clients` the addresses run
out; in `WebsocketSession` the session is destroyed, in `Server` all of them.

## 4. Fairness

* `MatchEnds` assumes that, while some player could make an accepted input, some
  player eventually makes one (`Fairness`). This is an assumption on clients: the
  code has no timeout, and a match whose players do nothing waits for ever.
  Rejected inputs do not count. Nobody leaves a running match there; with exits a
  match may stall (`LeaveStalls`).
* `WebsocketSession` assumes that a write in progress ends, well or with an error
  (`WriteEnds`): Boost.Asio completes every operation, and TCP gives up on a peer
  that does not answer. Nothing is assumed of reads. `ClosedLeaves` is checked
  with finitely many messages: a session that is sent broadcasts without end and
  whose writes succeed does not leave.
* `Server` assumes the same of every session's writes; that a read on a connection
  that could not be written to ends (the connection is lost for both); and that
  the destructor of the `io_context` runs to its end. Nothing is assumed of
  accepts, of reads on a sound connection or of signals.

## 5. What is proved

By TLAPS, for any number of players and cards, any deck, any gold and any amounts
(`Match_proofs` and, on cards, nicknames and events, `Piles_proofs` for the
operators; `MatchHandler_proofs` and `Auction_proofs` for the specification of a
match):

* `TypeCorrect` (`Spec => []TypeOK`, gold never negative), `NeverFaults`,
  `BidsAreCovered`, with players who leave and return at any time;
* `CardsAreApart` (`Spec => []OneHolderPerCard`) and `CardsAreKept`
  (`Spec => NoCardLost`), likewise;
* `CardsGoToTheLeader` (`Spec => SoldToTheLeader`): a match implements `Auction`,
  likewise;
* `GoldIsTold` (`Spec => LedgerFollowsBroadcast`): whoever replays the events of a
  broadcast arrives at the gold of every player, likewise;
* `TwoPlayersWinners` (`Spec => WinnersHaveMostVictory` when `NumPlayers <= 2`): the
  default size announces the right winners; of three it is false (`ThreeWinners`);
* `AlwaysAMove` (`SteadySpec => []NeverStuck`) and `LeaderHoldsBid`
  (`SteadySpec => []LeaderMatchesBid`): while nobody leaves. Both fail with
  players who leave a running match: whoever would move, or leads, may be gone.

The invariant of the first three is `Sound(match)`. `TypeOK /\ NoFault /\
BidCovered` is not inductive: paying needs the winner's offer covered, and the
phase methods assume a card on the table in the two phases of a dispute, nobody
leading, tying or passed outside them, and the attack zero in an auction and the
offer zero in an attack; `Sound` adds these. Each phase method takes a sound
match with players to a sound match, so `ProcessPhase` does. Lemma `RestsInFour`
shows that the chain of phase methods is at rest after four of them, hence five
lose nothing: after a turn starts with cards on the table somebody attacks or an
auction opens, and a fresh auction rests since everyone may offer nothing of
their gold. Each handler is then a change of the players that keeps `Sound`,
followed by `ProcessPhase`.

`Settled` adds to `Sound` that a running match rests (the chain of phases has
nothing left to do) and that it is `Led`: nobody holds a bid of zero, one player
holds any other, or at least two tie. From the first, somebody can attack or
pass, for whoever can offer can pass (`AlwaysAMove`); from the second follows
`LeaderHoldsBid`. The handlers are first taken to a match that is `Handled`, in
which `Led` may speak of a dispute that is over, and `ProcessPhase` closes it.

`Dealt` adds to `Sound` that no card is in two places (`Apart`) and that no two
players have one nickname (`Distinct`): the player who leaves, and the one who
wins a card, are looked up by nickname, and with two of them a hand would go
twice or not at all. For every phase method and handler a lemma shows `Keeps`:
nobody comes or goes, the cards of the match as a whole are the same, and a match
whose cards are apart stays so. `Keeps` composes along the chain of phases. What
a shuffle deals is one order of the deck, so nothing is asked of `Deals` here.

For the refinement `Dealt` needs `Orderly(match)` besides: outside a dispute
no card is on the table and nobody leads; in one at most one player does, with a
bid that is not zero.
It is weaker than `Led`, which players who leave break. A handler either leaves a
dispute that rests, which is one of the `Bids` of its player that `Stands`, or one
that is over (`BidIsMade`); the chain of phases then ends in the next dispute
(`Opened`) or in the end of the match, and what it did to the players in between is
`Sold`, followed by `Produced` after the last card of a turn (`DisputeEnds`,
`EndedCloses`). This is shown by position; that the functions by nickname of
`Auction` change accordingly, also when positions shift, follows from `Distinct`
(`GoldIs`, `HandsAre`, `NewOwner`, `OwnerLeaves`).

`GoldIsTold` relates two recursions, the fold with which `Replayed` reads a list
of events and the loops with which the match pays and produces. A fold over a
sequence is first shown to be the last of its intermediate values (`Folded`,
`FoldsToFolded`), so that a fold over `s \o t` goes on from the fold over `s`
(`FoldedConcat`), and a fold whose steps all do nothing does nothing. An operator
then `Tells` when its whole update accounts for the gold it moved and `Posts` when
the events it adds do; the two compose along the chain of phases. Every
handler that broadcasts tells: a move posts what it pays; the end of a turn posts
an `Earn` for each player; the start of a match sets the gold of each, after which
it does not matter what `start()` left before it. The invariant (`Seated`) adds to
`Dealt` that a match has no more players than it starts with: a step after which
it is full is then never an exit.

`TwoPlayersWinners` follows the announcements along the same chain
(`AnnouncedWell`): nothing but the last phase announces a winner, it announces
what `WinnersOf` returns, and with two players the missing assignment of the
maximum makes no difference (`WinnersOfTwo`).

Of the server, for any number of clients and matches (`ServerManager_proofs`):

* `SeatsAreTaken` (`FreshSpec => []SeatsArePlayers`): those registered for a
  match are open sessions and correspond one to one to its players;
* `ServerStaysUp` (`FreshSpec => []Up`): no match ever panics, so no sequence of
  messages and connections aborts the process;
* `ManagerTypeCorrect` (`FreshSpec => []TypeOK`): besides the types, no client is
  ever sent an update without an event;
* `SameForAll` (`FreshSpec => ClientsInStep`): a call tells all clients who stay
  in a match the same, or only refuses one of them.

The invariant is `Seating`. `SeatsArePlayers` alone is not inductive: that a
session which leaves takes its own player with it, and no other, needs that the
nicknames of a match differ (`Distinct`) and that no two seated sessions have
one nickname; that a move is made by a player of the match, which keeps it from
panicking, needs that every open session that plays is seated, and `Sound` of
every match; and that `leave()` finds the match needs the types of the maps, of
which the one that matters is that an accepting session is not in `handlerMatch`
yet. That is where `FreshSpec` is needed: a session at an address the map still
knows would be taken for a player, as `ReusedAddress` shows. The calls to a match
are dealt with by the lemmas on the operators, which `Piles_proofs` extends with
who is in a match after each (`NamesOf`). What a call sends is an action of its
own, `SentOK` and `InStep`, shown of every call from `Seating`: a move is broadcast
to all who are seated, and its update has an event because the handlers of a
match always `Adds` to it one that is not refused.

Of the server with its listener and sessions (`Server_proofs`), any clients,
matches and messages:

* `PointersStayValid` (`ServerSpec => []PointersValid`): a session that the manager
  may broadcast to is alive;
* `SessionsBehave` (`ServerSpec => SessionsAsSpecified`): each session of the
  server is a behaviour of `WebsocketSession`, the step refinement of section 2
  made in every handler of every session.

The invariant is `IInv`: until a signal stops the `io_context`, the manager is
`Seating`, and each session is open exactly when a read or a write of it is in
progress (`SessionOK`), writes the front of its queue, and has sent nothing before
it was accepted. Seats are those of open sessions by `Seating`, hence
`PointersValid`. For every handler one lemma shows that its session takes the step
of `WebsocketSession` of that name and every other session an `OnBroadcast` or none
(`Behaves`). How many messages a call sends to a session comes from the manager
(`Answers`): at most two; to a session without a seat only in its own call; and two
to the caller only when it sits down (the match, and its start). What they do to a
queue, a fold in `SendMessages`, is one or two times `SendMessage` (`QueuedOneByOne`).

Of what the clients know (`Clients_proofs`), any clients, matches, cards and orders
of calls:

* `PlayersAreKnown`, `GoldIsKnown`, `CardsAreKnown` and `AuctioneerIsKnown`
  (`ClientsSpec => []KnowsPlayers`, `[]KnowsGold`, `[]KnowsCards` and
  `[]KnowsAuctioneer`): what a client computes from the events it is sent is what
  the server holds;
* `ClientsNeverThrow` (`ClientsSpec => []NeverThrows`): no event refers to what its
  receiver does not have;
* `LibraryIsInStep` (`ClientsSpec => LibraryAgrees`): the match that the client library
  builds from a `MatchInfo` runs exactly if the server's does, whatever either draws.

The invariant, `Followed`, adds to `Seating` that every client of a match
`Mirrors` it and that the match is `Staged` (its cards apart, its nicknames
different, nothing on the table outside a dispute) and `AtRest`. `Mirrors` is what
the five properties say, and what they need of one another and of matches that do
not run: every card left in the deck is one the client was told of when it joined;
the hands are followed from before the start of the match to its last turn, and
not in a finished one, whose next start shows the new hands beside the old
(`Tracked`); after a discard a client may show a wrong card but never
runs out of cards in play before the server does, and never shows an empty hand
where the server has one that attacks. Nothing of this holds in the middle of a
call, between the event and the assignment it tells of. The argument is
therefore `Carries(m, r)`: the events a phase method adds take each client that
mirrors `m` to one that mirrors `r`. It composes along the chain of phases
(`CarriesMore`), is shown of every phase method and of the start, and an input
handler is a bid that clients do not show, followed by the chain. `joinMatch()` is
two steps of that kind for those already there and, for whoever comes, a `MatchInfo`
after which anything it showed before is forgotten.

For the library, `Room` says that no match has more players than it starts with. So
the player who sits down either fills the match on both sides or on neither, and
`StartRuns` says that a match that starts runs exactly if its deck has the cards of
a turn, which is of the same length on both sides. `LibraryBuilds` is the fold over
the nicknames by which the library gets there: as they are all different, none is
refused (`Admits`), and a match is started at the last of them at the earliest.

For any messages and any number of them (`WebsocketSession_proofs`):

* `SessionTypeCorrect`, `OneWriteAtATime`, and `DeliveredInOrder`: `Spec`
  implements `MessageChannel`, under the identity on `sent` and `delivered`;
  `FailureIsFinal` (`NothingAfterFailure`). The
  invariant adds `NothingLost`: what was delivered followed by the queue is what
  was sent; and that after a failure nothing is being written while the queue is
  not empty, so that `SendMessage` never starts a write again.

Assumptions used: the named `ASSUME`s of `Match` (names; a deck that has every
card card once, as `main.cpp` fills it with `std::iota`; a configuration in which the
auctioneer's disadvantage is at most the initial gold, as in the defaults of
`MatchConfig`, which the code does not check; that sums over cards are natural
numbers)
over cards are natural numbers) of `MatchHandler`
(offers are integers), of `ServerManager` (also that no match is the null pointer)
and, for the bound on messages, of `WebsocketSession` and `Server`. All are
evaluated by TLC in the runs.
`TotalsAssumption` stands for an induction over sets of cards. Folds over
sequences are dealt with by hand: that a fold of the community modules has the
values of a recursive function over prefixes is shown by taking the least prefix
for which it has not (`Induct`, `FoldExists`, `StepsExist`), likewise that the scan
of `WinnersOf` returns positions of players (`WinnersType`).

## 6. What is only model-checked

Liveness (`MatchEnds`, `SentIsDelivered`, `ClosedLeaves`, `GoneLeave`) and what sums
over cards add up to.
`CallsAreExpected` is beyond `tlapm`,
which cannot load a parameterised instance of `MatchHandler`; what it would be
used for, the absence of panics, is proved directly. The specification with reuse of addresses (`Spec` of
`ServerManager`) is the one of the code; `FreshSpec`, in which no session is
created at the address of an earlier one that the maps still know (`Clients` and
`Server` are built on it), is an assumption under which the other properties of the manager hold, and
`ReusedAddress` shows that it matters.

## 7. Plan

In the order of importance to the system; all are done.

1. `Match` and `MatchHandler` with their runs: the rules of the game.
2. `WebsocketSession` against `MessageChannel`.
3. `ServerManager` over `MatchHandler`, with sessions that come and go.
4. Type correctness, absence of faults, covered bids, progress: proved.
5. The session's refinement: proved.
6. `Server`: `Listener`, the signals that stop it, and sessions with their read
   and write chains composed with `ServerManager`.
7. `Clients`: the state of the web client and of the client library.
8. `Auction`: what becomes of cards and gold (who leads, who gets the card, who
   pays what), implemented by `MatchHandler`: proved.
9. `LeaderMatchesBid`, `OneHolderPerCard` and `NoCardLost` for any deck without
   repeated cards: proved.
10. Theorems about the server: `SeatsArePlayers`, `Up`, `TypeOK` and `ClientsInStep`
   and, over `Server`, `PointersValid` and the refinement of every session: proved.
11. `LedgerFollowsBroadcast`, and `WinnersHaveMostVictory` of two players: proved.
12. What clients know, from the events alone: `KnowsPlayers`, `KnowsGold`,
   `KnowsCards`, `KnowsAuctioneer` and `NeverThrows`: proved.
13. `LibraryAgrees`, and with it every safety property of the passing runs but
   `CallsAreExpected`: proved.

## 8. What is not modelled, and why

The text of messages (`nlohmann::json`), of logs and of errors: no property depends
on it; a message that does not parse is an `InputEvent` of type Error. The text
`dispatch()` of the Emscripten bindings returns. The view and buttons of the web
client; the Vue client, which keeps no match. The failure of
`acceptor.set_option()` (`Listener.cpp:23`), which throws and ends the process
before it serves anybody (the `ec` tested after it is the one of `open()`). `GameModifier` is declared
and never applied. `Match::handleEvent(const InputEvent&)` is not reached by the
server, which visits only the three events of a player. Threads: `Server` runs
one, and `ServerManager.hpp:32` says that more are not supported.
