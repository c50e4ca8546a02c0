--------------------------- MODULE ServerManager ---------------------------
(***************************************************************************)
(* ServerManager (src/Manager/ServerManager.cpp): the sessions of the      *)
(* clients, the matches, and who plays where under which nickname.  Every  *)
(* action is one call, with all the calls it makes to a MatchHandler and   *)
(* from there back to broadcast(); it runs to its end before the next one. *)
(*                                                                         *)
(* The maps are keyed by IOHandler*, the address of a session: a session   *)
(* created later may be given the address of one that was destroyed.       *)
(***************************************************************************)
EXTENDS Match

CONSTANTS
    Handler,      \* the addresses sessions are created at
    MatchID,      \* the ids clients name matches by
    OfferAmounts  \* the amounts of gold clients offer

(* No match is the null pointer.                                           *)
ASSUME ManagerAssumption == "none" \notin MatchID /\ OfferAmounts \subseteq Int

VARIABLES
    sessions,       \* the sessions that exist: accepting, or open
    matches,        \* the match of every id that was asked for
    handlerMatch,   \* the match and nickname of every address that joined
    matchHandlers,  \* the sessions of every match: << id, handler >>
    sentMessages    \* what the last call sent to each session

vars == << sessions, matches, handlerMatch, matchHandlers, sentMessages >>

NotPlaying == [matchID |-> "none", nickname |-> NoName]

MatchOf(id) == IF id \in DOMAIN matches THEN matches[id] ELSE NewMatch

(* The nicknames of the players in a match.                                *)
Players(id) == NamesOf(MatchOf(id))

IsFull(id) == Len(MatchOf(id).players) = NumPlayers

IsRunning(id) == MatchOf(id).currentPhase \notin {"WaitForStart", "Finished"}

(* A panic aborts the server with all its matches.                         *)
Up == \A id \in DOMAIN matches : matches[id].fault = "none"

Open == {h \in Handler : sessions[h] = "open"}

(* equal_range(match).                                                     *)
Seated(id) == {h \in Handler : << id, h >> \in matchHandlers}

Plays(h, id) == h \in DOMAIN handlerMatch /\ handlerMatch[h].matchID = id

SetMatch(id, m) ==
    [i \in DOMAIN matches \cup {id} |-> IF i = id THEN m ELSE matches[i]]

SetHandlerMatch(h, pair) ==
    [i \in DOMAIN handlerMatch \cup {h} |->
        IF i = h THEN pair ELSE handlerMatch[i]]

Init ==
    /\ sessions = [h \in Handler |-> "none"]
    /\ matches = << >> /\ handlerMatch = << >> /\ matchHandlers = {}
    /\ sentMessages = [h \in Handler |-> <<>>]

-----------------------------------------------------------------------------
JoinMatchResult(n) == << Event("JoinMatchResult", n, 0) >>

(* Mutant: made before the new player is added.                            *)
MatchInfoOfOthers(m) ==
    MatchInfoOf([i \in 1..(Len(m.players) - 1) |-> NameAt(m, i)], m.deck)

MatchInfo(m) ==
    MatchInfoOf([i \in DOMAIN m.players |-> NameAt(m, i)], m.deck)

(* What a call sends to every session.                                     *)
SendsNothing == sentMessages' = [h \in Handler |-> <<>>]

SendsTo(receivers, message) ==
    sentMessages' =
        [h \in Handler |-> IF h \in receivers THEN << message >> ELSE <<>>]

(* Server: the listener's callback creates a session, which waits for the  *)
(* handshake.                                                              *)
Create(h) ==
    /\ Up /\ sessions[h] = "none"
    /\ sessions' = [sessions EXCEPT ![h] = "accepting"]
    /\ SendsNothing /\ UNCHANGED << matches, handlerMatch, matchHandlers >>

(* join(): insert() leaves the entry of an address that has one.           *)
Join(h) ==
    /\ Up /\ sessions[h] = "accepting"
    /\ sessions' = [sessions EXCEPT ![h] = "open"]
    /\ handlerMatch' = IF h \in DOMAIN handlerMatch THEN handlerMatch
                       ELSE SetHandlerMatch(h, NotPlaying)
    /\ SendsNothing /\ UNCHANGED << matches, matchHandlers >>

(* Mutant: the multimap's erase() by key takes every session of the match. *)
EraseMatch(id, h) == {seat \in matchHandlers : seat[1] # id}

Erase(id, h) == matchHandlers \ {<< id, h >>}

(* leave(), called by the destructor, whether or not the session joined;   *)
(* the entry of handlerMatch stays.                                        *)
Leave(h) ==
    /\ Up /\ sessions[h] # "none"
    /\ sessions' = [sessions EXCEPT ![h] = "none"]
    /\ IF h \notin DOMAIN handlerMatch \/ Plays(h, "none")
       THEN UNCHANGED << matches, matchHandlers >>
       ELSE LET pair == handlerMatch[h]
                left == RemovePlayer(matches[pair.matchID], pair.nickname)
            IN  /\ matches' = SetMatch(pair.matchID, left)
                /\ matchHandlers' = Erase(pair.matchID, h)
    /\ SendsNothing /\ UNCHANGED handlerMatch

-----------------------------------------------------------------------------
(* dispatchMessage(), by what the message is and who sends it.             *)

(* The Events::InputEvent of toInputEvent(): Error for whatever message it *)
(* finds no event in.  (The nickname of a move is the one of the session.) *)
InputEvent ==
    [type : {"Error", "Attack", "Pass"}]
        \cup [type : {"Offer"}, gold : OfferAmounts]
        \cup [type : {"JoinMatchRequest"}, matchID : MatchID, nickname : Name]

(* A message that is no event.                                             *)
ReceiveInvalid(h) ==
    /\ Up /\ h \in Open
    /\ UNCHANGED << sessions, matches, handlerMatch, matchHandlers >>
    /\ SendsTo({h}, Error)

(* Mutant: a match that runs takes players.                                *)
RefusesUnlessFree(id, n) == IsFull(id) \/ n \in Players(id)

(* MatchHandler::addPlayer() refuses.                                      *)
Refuses(id, n) == IsFull(id) \/ IsRunning(id) \/ n \in Players(id)

JoinMatchRefused(h, id, n) ==
    /\ Up /\ h \in Open /\ Plays(h, "none")
    /\ Refuses(id, n)
    /\ UNCHANGED << sessions, matches, handlerMatch, matchHandlers >>
    /\ SendsTo({h}, Error)

(* joinMatch(): the others are told, the client is registered and gets the *)
(* MatchInfo, and a match that is full now starts.                         *)
JoinMatch(h, id, n) ==
    /\ Up /\ h \in Open /\ Plays(h, "none")
    /\ ~Refuses(id, n)
    /\ matchHandlers' = matchHandlers \cup {<< id, h >>}
    /\ handlerMatch' = SetHandlerMatch(h, [matchID |-> id, nickname |-> n])
    /\ UNCHANGED sessions
    /\ LET joined == AddPlayer(MatchOf(id), n)
           full   == Len(joined.players) = NumPlayers
           Welcome(k) == IF k = h THEN << MatchInfo(joined) >>
                         ELSE IF k \in Seated(id) THEN << JoinMatchResult(n) >>
                         ELSE <<>>
       IN  \/ /\ ~full
              /\ matches' = SetMatch(id, joined)
              /\ sentMessages' = [k \in Handler |-> Welcome(k)]
           \/ /\ full
              /\ \E m \in Starts(joined) :
                  /\ matches' = SetMatch(id, m)
                  /\ sentMessages' = [k \in Handler |-> Welcome(k) \o
                        IF k = h \/ k \in Seated(id) THEN << m.updateEvent >>
                        ELSE <<>>]

(* Mutant: the client that moves is not told of its own move.              *)
RespondToOthers(h, id, m) ==
    /\ matches' = SetMatch(id, m)
    /\ UNCHANGED << sessions, handlerMatch, matchHandlers >>
    /\ IF m.updateEvent = Error THEN SendsTo({h}, Error)
       ELSE SendsTo(Seated(id) \ {h}, m.updateEvent)

(* MatchHandler::handleEvent(): an Error goes back to the client, anything *)
(* else to every session of the match.  (A panic sends nothing.)           *)
Respond(h, id, m) ==
    /\ matches' = SetMatch(id, m)
    /\ UNCHANGED << sessions, handlerMatch, matchHandlers >>
    /\ IF m.fault # "none" THEN SendsNothing
       ELSE IF m.updateEvent = Error THEN SendsTo({h}, Error)
       ELSE SendsTo(Seated(id), m.updateEvent)

(* What a move of player n makes of the match.                              *)
HandleEvent(m, n, event) ==
    CASE event.type = "Attack" -> HandleAttack(m, n)
      [] event.type = "Offer"  -> HandleOffer(m, n, event.gold)
      [] event.type = "Pass"   -> HandlePass(m, n)

(* An attack, an offer or a pass of a client in a match.  (A request to    *)
(* join from one in a match, and a move from one that is in none, are      *)
(* logged: nothing changes.)                                               *)
Play(h, event) ==
    /\ Up /\ h \in Open /\ ~Plays(h, "none")
    /\ LET id == handlerMatch[h].matchID
       IN  Respond(h, id,
               HandleEvent(matches[id], handlerMatch[h].nickname, event))

DispatchMessage(h, event) ==
    CASE event.type = "Error" -> ReceiveInvalid(h)
      [] event.type = "JoinMatchRequest" ->
            \/ JoinMatchRefused(h, event.matchID, event.nickname)
            \/ JoinMatch(h, event.matchID, event.nickname)
      [] OTHER -> Play(h, event)

(* The calls a session makes.                                              *)
Calls(h) ==
    \/ Join(h) \/ Leave(h)
    \/ \E event \in InputEvent : DispatchMessage(h, event)

Next == \E h \in Handler : Create(h) \/ Calls(h)

Spec == Init /\ [][Next]_vars

(* No session is created at the address of one that was destroyed.         *)
FreshNext ==
    \E h \in Handler : \/ h \notin DOMAIN handlerMatch /\ Create(h)
                       \/ Calls(h)

FreshSpec == Init /\ [][FreshNext]_vars

-----------------------------------------------------------------------------
(* Properties.                                                             *)

(* Who plays has a match that exists and a nickname, who does not has      *)
(* neither; and no client is ever sent an update without an event, the     *)
(* "null" that a std::monostate would be written as.                       *)
TypeOK ==
    /\ sessions \in [Handler -> {"none", "accepting", "open"}]
    /\ DOMAIN matches \subseteq MatchID
    /\ DOMAIN handlerMatch \subseteq Handler
    /\ \A h \in DOMAIN handlerMatch :
          handlerMatch[h] \in
            {NotPlaying} \cup [matchID : DOMAIN matches, nickname : Name]
    /\ matchHandlers \subseteq (DOMAIN matches) \X Handler
    /\ sentMessages \in [Handler -> Seq(OutputEvent \ {<<>>})]

(* The three maps agree with the matches: the sessions registered for a    *)
(* match are open and, one to one, the players in it.                      *)
SeatsArePlayers ==
    \A id \in MatchID :
        /\ \A h \in Seated(id) : h \in Open /\ Plays(h, id)
        /\ {handlerMatch[h].nickname : h \in Seated(id)} = Players(id)
        /\ Cardinality(Seated(id)) = Len(MatchOf(id).players)

(* The clients of a match stay in step: a call sends the same to all who   *)
(* were in it, unless one of them is refused and the match is untouched.   *)
ClientsInStep ==
    [][\A id \in MatchID :
        \/ \A h, k \in Seated(id) \cap Seated(id)' :
              sentMessages'[h] = sentMessages'[k]
        \/ \E h \in Seated(id) :
            /\ \A k \in Handler :
                  sentMessages'[k] = IF k = h THEN << Error >> ELSE <<>>
            /\ MatchOf(id)' = [MatchOf(id) EXCEPT
                                !.updateEvent = MatchOf(id)'.updateEvent]]_vars

-----------------------------------------------------------------------------
(* What the comments of the source say of the program.                     *)

(* ServerManager.hpp: handlerMatch shows which match a session is playing  *)
(* and its nickname; a session that is not playing has the default pair.   *)
ShowsWhoPlays ==
    \A h \in Open :
        IF \E id \in MatchID : h \in Seated(id)
        THEN \E id \in MatchID : h \in Seated(id) /\ Plays(h, id)
        ELSE Plays(h, "none")
=============================================================================
