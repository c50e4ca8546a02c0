------------------------------- MODULE Events -------------------------------
(***************************************************************************)
(* src/Events: the events the server sends and their JSON.  A JSON object  *)
(* is a record of its keys.  The text of a type is the name of the event   *)
(* and other texts (the message of an Error, the reason of a Leave) are    *)
(* empty: nothing depends on them.                                         *)
(*                                                                         *)
(* An OutputEvent is a sequence of events: <<>> is std::monostate, one     *)
(* event is that event, several are a Complex.                             *)
(***************************************************************************)
EXTENDS Integers, Sequences

CONSTANTS
    Name,    \* the nicknames a client may choose
    NoName   \* the nickname of an event that names no player

ASSUME NameAssumption == NoName \notin Name

EventType == {"Error", "Attack", "Offer", "Pass", "IsAuctioneer", "SetGold",
              "Draw", "GetCard", "Pay", "Earn", "Winner", "JoinMatchResult",
              "Leave"}

(* An event by what it says: the player it is about and an amount of gold  *)
(* or a card (0 when it has none).                                         *)
Event(type, nickname, value) ==
    [type |-> type, nickname |-> nickname, value |-> value]

Error == << Event("Error", NoName, 0) >>

(* A MatchInfo has the nicknames of the players and the deck.  Its config  *)
(* is written as numPlayers, from which its reader makes the same config   *)
(* as the server, and is left out.                                         *)
MatchInfoOf(nicknames, deck) ==
    << [type |-> "MatchInfo", players |-> nicknames, deck |-> deck] >>

(* The events a match makes, and what the server sends.                    *)
Update == [type : EventType, nickname : Name \cup {NoName}, value : Int]

OutputEvent ==
    Seq(Update) \cup [1..1 -> [type : {"MatchInfo"}, players : Seq(Name),
                              deck : Seq(Int)]]

-----------------------------------------------------------------------------
(* toMessage().                                                            *)

(* The keys of an event beside its type.                                   *)
Keys(type) ==
    CASE type \in {"Earn", "Offer", "Pay", "SetGold"} -> {"nickname", "gold"}
      [] type = "Draw"      -> {"card"}
      [] type = "Error"     -> {"message"}
      [] type = "Leave"     -> {"nickname", "reason"}
      [] type = "MatchInfo" -> {"players", "deck"}
      [] OTHER              -> {"nickname"}

ToJson(e) ==
    LET Value(key) == CASE key = "type"               -> e.type
                        [] key = "nickname"           -> e.nickname
                        [] key \in {"gold", "card"}   -> e.value
                        [] key = "players"            -> e.players
                        [] key = "deck"               -> e.deck
                        [] OTHER                      -> ""
    IN  [key \in Keys(e.type) \cup {"type"} |-> Value(key)]

Null == [null |-> ""]

ToMessage(events) ==
    CASE Len(events) = 0 -> Null
      [] Len(events) = 1 -> ToJson(events[1])
      [] OTHER -> [ type |-> "Complex",
                    events |-> [k \in DOMAIN events |-> ToJson(events[k])] ]

-----------------------------------------------------------------------------
(* toOutputEvent().                                                        *)

(* The types that it reads, those it knows and makes nothing of, and, with *)
(* an Error like any other text, none of them: Pay.                        *)
Read    == {"Attack", "Draw", "Error", "JoinMatchResult", "Offer", "Pass",
            "MatchInfo"}
Ignored == {"Earn", "GetCard", "IsAuctioneer", "Leave", "SetGold", "Winner"}

FromJson(j) ==
    IF j.type = "MatchInfo" THEN MatchInfoOf(j.players, j.deck)
    ELSE << Event(j.type,
                  IF "nickname" \in DOMAIN j THEN j.nickname ELSE NoName,
                  IF "gold" \in DOMAIN j THEN j.gold
                  ELSE IF "card" \in DOMAIN j THEN j.card ELSE 0) >>

(* The elements of a Complex are objects, and read as if they were texts:  *)
(* the exception that any but an empty Complex throws becomes an Error.    *)
ToOutputEvent(j) ==
    IF "type" \notin DOMAIN j THEN Error
    ELSE IF j.type = "Complex" THEN IF j.events = <<>> THEN <<>> ELSE Error
    ELSE IF j.type \in Read /\ Keys(j.type) \subseteq DOMAIN j THEN FromJson(j)
    ELSE IF j.type \in Ignored THEN <<>>
    ELSE Error
=============================================================================
