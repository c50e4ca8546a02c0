------------------------ MODULE ServerManager_proofs ------------------------
(***************************************************************************)
(* Theorems about ServerManager, for any number of sessions and matches,   *)
(* any nicknames and ids, when no session is created at the address of an  *)
(* earlier one that the maps still know (FreshSpec).                       *)
(***************************************************************************)
EXTENDS ServerManager, Piles_proofs

(* The maps have the types of their members; a session is in handlerMatch  *)
(* exactly from when it joined.                                            *)
MapsOK ==
    /\ sessions \in [Handler -> {"none", "accepting", "open"}]
    /\ DOMAIN matches \subseteq MatchID
    /\ DOMAIN handlerMatch \subseteq Handler
    /\ \A h \in DOMAIN handlerMatch :
          handlerMatch[h] \in
            {NotPlaying} \cup [matchID : DOMAIN matches, nickname : Name]
    /\ matchHandlers \subseteq (DOMAIN matches) \X Handler
    /\ \A h \in Handler :
          /\ sessions[h] = "accepting" => h \notin DOMAIN handlerMatch
          /\ sessions[h] = "open" => h \in DOMAIN handlerMatch

Nickname(h) == handlerMatch[h].nickname

(* A match is sound, and those registered for it are the open sessions     *)
(* that play in it, one for each of its players.                           *)
SeatingOK(id) ==
    /\ Sound(MatchOf(id)) /\ Distinct(MatchOf(id).players)
    /\ \A h \in Handler : h \in Seated(id) <=> h \in Open /\ Plays(h, id)
    /\ \A h, k \in Seated(id) : Nickname(h) = Nickname(k) => h = k
    /\ Players(id) = {Nickname(h) : h \in Seated(id)}

Seating == MapsOK /\ \A id \in MatchID : SeatingOK(id)

LEMMA PlayersAre == ASSUME NEW id PROVE Players(id) = NamesOf(MatchOf(id))
BY DEF Players, NamesOf

LEMMA NewMatchSound ==
    Sound(NewMatch) /\ Distinct(NewMatch.players) /\ NamesOf(NewMatch) = {}
<1>1. InitialDeck \in Seq(Card)
  BY DeckAssumption
<1>2. Sound(NewMatch)
  BY <1>1 DEF NewMatch, Sound, Covered, MatchType, Phase, Undisputed, AllReset
<1>3. NewMatch.players = <<>>
  BY DEF NewMatch
<1>. QED
  BY <1>2, <1>3 DEF Distinct, NamesOf

LEMMA InitSeating == Init => Seating
<1>. SUFFICES ASSUME Init PROVE Seating
  OBVIOUS
<1>1. /\ sessions = [h \in Handler |-> "none"]
      /\ matches = <<>> /\ handlerMatch = <<>> /\ matchHandlers = {}
  BY DEF Init
<1>2. MapsOK
  BY <1>1 DEF MapsOK
<1>3. ASSUME NEW id \in MatchID PROVE SeatingOK(id)
  <2>1. MatchOf(id) = NewMatch
    BY <1>1 DEF MatchOf
  <2>2. Seated(id) = {} /\ Open = {}
    BY <1>1 DEF Seated, Open
  <2>. QED
    BY <2>1, <2>2, NewMatchSound, PlayersAre DEF SeatingOK
<1>. QED
  BY <1>2, <1>3 DEF Seating

-----------------------------------------------------------------------------
(* Steps, as they are seen from one match.                                 *)

(* Its seats do not change, nor do the players in it.                      *)
SameSeats(id) ==
    /\ Seated(id)' = Seated(id)
    /\ \A h \in Handler : (h \in Open /\ Plays(h, id))'
                              <=> h \in Open /\ Plays(h, id)
    /\ \A h \in Seated(id) : Nickname(h)' = Nickname(h)

LEMMA SeatsStay ==
    ASSUME NEW id \in MatchID, MapsOK, SeatingOK(id), SameSeats(id),
           Sound(MatchOf(id)'), Distinct(MatchOf(id)'.players),
           NamesOf(MatchOf(id)') = NamesOf(MatchOf(id))
    PROVE  SeatingOK(id)'
<1>1. Seated(id) \subseteq Handler
  BY DEF MapsOK, Seated
<1>2. Players(id)' = Players(id)
  BY DEF Players, NamesOf
<1>3. (\A h \in Handler : h \in Seated(id) <=> h \in Open /\ Plays(h, id))'
  BY DEF SameSeats, SeatingOK
<1>4. (\A h, k \in Seated(id) : Nickname(h) = Nickname(k) => h = k)'
  BY DEF SameSeats, SeatingOK
<1>5. (Players(id) = {Nickname(h) : h \in Seated(id)})'
  BY <1>2 DEF SameSeats, SeatingOK
<1>6. (Sound(MatchOf(id)) /\ Distinct(MatchOf(id).players))'
  BY DEF Sound, Covered, MatchType, Undisputed, AllReset, Distinct
<1>. QED
  BY <1>3, <1>4, <1>5, <1>6 DEF SeatingOK

LEMMA NothingChanges ==
    ASSUME NEW id \in MatchID, MapsOK, SeatingOK(id), SameSeats(id),
           MatchOf(id)' = MatchOf(id)
    PROVE  SeatingOK(id)'
BY SeatsStay DEF SeatingOK

LEMMA MatchStays == ASSUME UNCHANGED matches
                    PROVE  \A id : MatchOf(id)' = MatchOf(id)
BY DEF MatchOf

LEMMA CreateSeats ==
    ASSUME Seating, NEW h \in Handler, h \notin DOMAIN handlerMatch, Create(h)
    PROVE  Seating'
<1>1. /\ sessions[h] = "none"
      /\ sessions' = [sessions EXCEPT ![h] = "accepting"]
      /\ UNCHANGED << matches, handlerMatch, matchHandlers >>
  BY DEF Create
<1>2. MapsOK'
  BY <1>1 DEF Seating, MapsOK
<1>3. ASSUME NEW id \in MatchID PROVE SeatingOK(id)'
  <2>1. Open' = Open
    BY <1>1 DEF Seating, MapsOK, Open
  <2>2. SameSeats(id)
    BY <1>1, <2>1 DEF SameSeats, Seated, Plays, Nickname
  <2>. QED
    BY <1>1, <2>2, MatchStays, NothingChanges DEF Seating
<1>. QED
  BY <1>2, <1>3 DEF Seating

LEMMA JoinSeats ==
    ASSUME Seating, NEW h \in Handler, Join(h)
    PROVE  Seating'
<1>1. /\ sessions[h] = "accepting" /\ h \notin DOMAIN handlerMatch
      /\ sessions' = [sessions EXCEPT ![h] = "open"]
      /\ handlerMatch' = SetHandlerMatch(h, NotPlaying)
      /\ UNCHANGED << matches, matchHandlers >>
  BY DEF Join, Seating, MapsOK
<1>2. /\ DOMAIN handlerMatch' = DOMAIN handlerMatch \cup {h}
      /\ handlerMatch'[h] = NotPlaying
      /\ \A k \in DOMAIN handlerMatch : handlerMatch'[k] = handlerMatch[k]
  BY <1>1 DEF SetHandlerMatch
<1>3. MapsOK'
  BY <1>1, <1>2 DEF Seating, MapsOK
<1>4. ASSUME NEW id \in MatchID PROVE SeatingOK(id)'
  <2>1. ~(h \in Open /\ Plays(h, id)) /\ ~Plays(h, id)'
    BY <1>1, <1>2, ManagerAssumption DEF Plays, NotPlaying
  <2>2. \A k \in Handler \ {h} : (k \in Open)' <=> k \in Open
    BY <1>1 DEF Seating, MapsOK, Open
  <2>3. \A k \in Handler \ {h} : Plays(k, id)' <=> Plays(k, id)
    BY <1>2 DEF Plays
  <2>4. Seated(id)' = Seated(id) /\ \A k \in Seated(id) : k \in DOMAIN handlerMatch
    BY <1>1 DEF Seating, SeatingOK, Seated, Plays, MapsOK
  <2>5. SameSeats(id)
    BY <1>2, <2>1, <2>2, <2>3, <2>4 DEF SameSeats, Nickname
  <2>. QED
    BY <1>1, <2>5, MatchStays, NothingChanges DEF Seating
<1>. QED
  BY <1>3, <1>4 DEF Seating

(* The match of an id after the step.                                      *)
LEMMA NextMatch ==
    ASSUME NEW id, NEW m, MatchOf(id)' = m, Sound(m), Distinct(m.players)
    PROVE  /\ (Sound(MatchOf(id)) /\ Distinct(MatchOf(id).players))'
           /\ Players(id)' = NamesOf(m)
<1>1. Sound(MatchOf(id)') /\ Distinct(MatchOf(id)'.players)
  OBVIOUS
<1>2. (Sound(MatchOf(id)) /\ Distinct(MatchOf(id).players))'
  BY <1>1 DEF Sound, Covered, MatchType, Undisputed, AllReset, Distinct
<1>3. Players(id)' = NamesOf(m)
  BY DEF Players, NamesOf
<1>. QED
  BY <1>2, <1>3

LEMMA SetMatchAt ==
    ASSUME NEW id, NEW m, matches' = SetMatch(id, m)
    PROVE  /\ DOMAIN matches' = DOMAIN matches \cup {id}
           /\ MatchOf(id)' = m
           /\ \A i : i # id => MatchOf(i)' = MatchOf(i)
BY DEF SetMatch, MatchOf

(* A session that plays has a seat, and its player is in the match.        *)
LEMMA PlayerOfSession ==
    ASSUME Seating, NEW h \in Handler, h \in Open, ~Plays(h, "none")
    PROVE  LET id == handlerMatch[h].matchID
               n  == handlerMatch[h].nickname
           IN  /\ h \in DOMAIN handlerMatch
               /\ id \in DOMAIN matches /\ id \in MatchID /\ n \in Name
               /\ Plays(h, id) /\ h \in Seated(id)
               /\ MatchOf(id) = matches[id]
               /\ Sound(matches[id]) /\ Distinct(matches[id].players)
               /\ IsPlayer(matches[id], n)
<1>. DEFINE id == handlerMatch[h].matchID
            n  == handlerMatch[h].nickname
<1>1. h \in DOMAIN handlerMatch
  BY DEF Seating, MapsOK, Open
<1>2. handlerMatch[h] \in [matchID : DOMAIN matches, nickname : Name]
  BY <1>1 DEF Seating, MapsOK, Plays, NotPlaying
<1>3. id \in DOMAIN matches /\ id \in MatchID /\ n \in Name
  BY <1>2 DEF Seating, MapsOK
<1>4. Plays(h, id) /\ h \in Seated(id)
  BY <1>1, <1>3 DEF Plays, Seating, SeatingOK
<1>5. MatchOf(id) = matches[id]
  BY <1>3 DEF MatchOf
<1>6. n \in NamesOf(matches[id])
  <2>1. n \in Players(id)
    BY <1>3, <1>4 DEF Seating, SeatingOK, Nickname
  <2>. QED
    BY <1>5, <2>1, PlayersAre
<1>7. IsPlayer(matches[id], n)
  BY <1>6 DEF IsPlayer, NamesOf
<1>. QED
  BY <1>1, <1>3, <1>4, <1>5, <1>7 DEF Seating, SeatingOK

LEMMA LeaveSeats ==
    ASSUME Seating, NEW h \in Handler, Leave(h)
    PROVE  Seating'
<1>1. /\ sessions[h] # "none"
      /\ sessions' = [sessions EXCEPT ![h] = "none"]
      /\ UNCHANGED handlerMatch
  BY DEF Leave
<1>2. /\ h \notin Open' /\ \A k \in Handler \ {h} : k \in Open' <=> k \in Open
      /\ \A k \in Handler, id \in MatchID : Plays(k, id)' <=> Plays(k, id)
  BY <1>1 DEF Seating, MapsOK, Open, Plays
<1>3. CASE h \notin DOMAIN handlerMatch \/ Plays(h, "none")
  <2>1. UNCHANGED << matches, matchHandlers >>
    BY <1>3 DEF Leave
  <2>2. MapsOK'
    BY <1>1, <2>1 DEF Seating, MapsOK
  <2>3. ASSUME NEW id \in MatchID PROVE SeatingOK(id)'
    <3>1. ~Plays(h, id)
      BY <1>3, ManagerAssumption DEF Plays
    <3>2. SameSeats(id)
      BY <1>1, <1>2, <2>1, <3>1 DEF SameSeats, Seated, Nickname
    <3>. QED
      BY <2>1, <3>2, MatchStays, NothingChanges DEF Seating
  <2>. QED
    BY <2>2, <2>3 DEF Seating
<1>4. CASE ~(h \notin DOMAIN handlerMatch \/ Plays(h, "none"))
  <2>. PICK at, n, left : /\ at = handlerMatch[h].matchID
                          /\ n = handlerMatch[h].nickname
                          /\ left = RemovePlayer(matches[at], n)
    OBVIOUS
  <2>1. h \in Open /\ ~Plays(h, "none")
    BY <1>1, <1>4 DEF Seating, MapsOK, Open
  <2>2. matches' = SetMatch(at, left) /\ matchHandlers' = matchHandlers \ {<< at, h >>}
    BY <1>4 DEF Leave, Erase
  <2>3. /\ at \in DOMAIN matches /\ at \in MatchID /\ n \in Name
        /\ Plays(h, at) /\ h \in Seated(at) /\ MatchOf(at) = matches[at]
        /\ Sound(matches[at]) /\ Distinct(matches[at].players)
        /\ IsPlayer(matches[at], n)
    BY <2>1, PlayerOfSession
  <2>4. /\ Sound(left) /\ Distinct(left.players)
        /\ NamesOf(left) = NamesOf(matches[at]) \ {n}
    BY <2>3, RemovePlayerSound, RemovePlayerKeeps, RemovePlayerNames
  <2>5. n = Nickname(h) /\ \A k : Nickname(k)' = Nickname(k)
    BY <1>1 DEF Nickname
  <2>6. \A id \in MatchID : Plays(h, id) <=> id = at
    BY <2>3 DEF Plays
  <2>7. /\ DOMAIN matches' = DOMAIN matches
        /\ MatchOf(at)' = left
        /\ \A id : id # at => MatchOf(id)' = MatchOf(id)
    <3>1. /\ DOMAIN matches' = DOMAIN matches \cup {at}
          /\ MatchOf(at)' = left
          /\ \A id : id # at => MatchOf(id)' = MatchOf(id)
      BY <2>2, SetMatchAt, Zenon
    <3>. QED
      BY <2>3, <3>1
  <2>8. MapsOK'
    BY <1>1, <2>2, <2>7 DEF Seating, MapsOK
  <2>9. SeatingOK(at)'
    <3>1. Seated(at)' = Seated(at) \ {h}
      BY <2>2 DEF Seated
    <3>2. \A k \in Handler : k \in Seated(at)' <=> k \in Open' /\ Plays(k, at)'
      BY <1>2, <2>3, <3>1 DEF Seating, SeatingOK
    <3>3. \A j, k \in Seated(at)' : Nickname(j)' = Nickname(k)' => j = k
      BY <2>3, <2>5, <3>1 DEF Seating, SeatingOK
    <3>4. Players(at)' = Players(at) \ {Nickname(h)}
      BY <2>3, <2>4, <2>5, <2>7, NextMatch, PlayersAre
    <3>5. Players(at)' = {Nickname(k)' : k \in Seated(at)'}
      BY <2>3, <2>5, <3>1, <3>4 DEF Seating, SeatingOK
    <3>6. (Sound(MatchOf(at)) /\ Distinct(MatchOf(at).players))'
      BY <2>4, <2>7, NextMatch
    <3>. QED
      BY <3>2, <3>3, <3>5, <3>6 DEF SeatingOK
  <2>10. ASSUME NEW id \in MatchID, id # at PROVE SeatingOK(id)'
    <3>1. Seated(id)' = Seated(id)
      BY <2>2, <2>10 DEF Seated
    <3>2. SameSeats(id)
      BY <1>2, <2>5, <2>6, <2>10, <3>1 DEF SameSeats
    <3>. QED
      BY <2>7, <2>10, <3>2, NothingChanges DEF Seating
  <2>. QED
    BY <2>8, <2>9, <2>10 DEF Seating
<1>. QED
  BY <1>3, <1>4

(* What joinMatch() makes of a match: one more player, and it has started  *)
(* if that fills it.                                                       *)
LEMMA JoinedMatch ==
    ASSUME Seating, NEW id \in MatchID, NEW n \in Name, ~Refuses(id, n),
           NEW m, \/ m = AddPlayer(MatchOf(id), n)
                  \/ m \in Starts(AddPlayer(MatchOf(id), n))
    PROVE  /\ Sound(m) /\ Distinct(m.players)
           /\ NamesOf(m) = NamesOf(MatchOf(id)) \cup {n}
<1>. DEFINE old == MatchOf(id)
            joined == AddPlayer(old, n)
<1>1. Sound(old) /\ MatchType(old) /\ Distinct(old.players)
  BY DEF Seating, SeatingOK, Sound
<1>2. old.currentPhase \in {"WaitForStart", "Finished"} /\ n \notin NamesOf(old)
  BY PlayersAre DEF Refuses, IsRunning
<1>3. \A i \in 1..Len(old.players) : old.players[i].name # n
  BY <1>1, <1>2, NamesByPosition
<1>. HIDE DEF old
<1>4. Sound(joined) /\ Undisputed(joined) /\ joined.players # <<>>
  BY <1>1, <1>2, AddPlayerSound
<1>5. Distinct(joined.players) /\ NamesOf(joined) = NamesOf(old) \cup {n}
  BY <1>1, <1>3, AddPlayerKeeps, AddPlayerNames
<1>. HIDE DEF joined
<1>6. CASE m = joined
  BY <1>4, <1>5, <1>6 DEF old
<1>7. CASE m \in Starts(joined)
  <2>1. Sound(m) /\ Keeps(joined, m)
    BY <1>4, <1>7, StartSound, StartKeeps
  <2>2. NamesOf(m) = NamesOf(joined) /\ Distinct(m.players)
    BY <1>4, <1>5, <2>1, KeepsNames DEF Sound
  <2>. QED
    BY <1>5, <2>1, <2>2 DEF old
<1>. QED
  BY <1>6, <1>7 DEF joined, old

LEMMA JoinMatchSeats ==
    ASSUME Seating, NEW h \in Handler, NEW at \in MatchID, NEW n \in Name,
           JoinMatch(h, at, n)
    PROVE  Seating'
<1>1. /\ h \in Open /\ Plays(h, "none") /\ ~Refuses(at, n)
      /\ matchHandlers' = matchHandlers \cup {<< at, h >>}
      /\ handlerMatch' = SetHandlerMatch(h, [matchID |-> at, nickname |-> n])
      /\ UNCHANGED sessions
  BY DEF JoinMatch
<1>2. PICK m : /\ \/ m = AddPlayer(MatchOf(at), n)
                  \/ m \in Starts(AddPlayer(MatchOf(at), n))
               /\ matches' = SetMatch(at, m)
  BY DEF JoinMatch
<1>3. /\ Sound(m) /\ Distinct(m.players)
      /\ NamesOf(m) = NamesOf(MatchOf(at)) \cup {n}
  BY <1>1, <1>2, JoinedMatch
<1>4. /\ DOMAIN matches' = DOMAIN matches \cup {at}
      /\ MatchOf(at)' = m
      /\ \A id : id # at => MatchOf(id)' = MatchOf(id)
  BY <1>2, SetMatchAt, Zenon
<1>5. /\ h \in DOMAIN handlerMatch /\ DOMAIN handlerMatch' = DOMAIN handlerMatch
      /\ handlerMatch'[h] = [matchID |-> at, nickname |-> n]
      /\ \A k \in DOMAIN handlerMatch \ {h} : handlerMatch'[k] = handlerMatch[k]
  BY <1>1 DEF SetHandlerMatch, Plays
<1>6. MapsOK'
  BY <1>1, <1>4, <1>5 DEF Seating, MapsOK
<1>7. Open' = Open
  BY <1>1 DEF Open
<1>8. \A k \in Handler \ {h}, id \in MatchID : Plays(k, id)' <=> Plays(k, id)
  BY <1>5 DEF Plays
<1>9. \A id \in MatchID : /\ ~Plays(h, id) /\ h \notin Seated(id)
                          /\ Plays(h, id)' <=> id = at
  BY <1>1, <1>5, ManagerAssumption DEF Plays, Seating, SeatingOK
<1>10. \A id \in MatchID : \A k \in Seated(id) :
          k \in DOMAIN handlerMatch \ {h} /\ Nickname(k)' = Nickname(k)
  BY <1>5, <1>9 DEF Seating, SeatingOK, Plays, Nickname, MapsOK, Seated
<1>11. SeatingOK(at)'
  <2>1. Seated(at)' = Seated(at) \cup {h}
    BY <1>1 DEF Seated
  <2>2. \A k \in Handler : k \in Seated(at)' <=> k \in Open' /\ Plays(k, at)'
    BY <1>1, <1>7, <1>8, <1>9, <2>1 DEF Seating, SeatingOK
  <2>3. Nickname(h)' = n /\ n \notin Players(at)
    BY <1>1, <1>5 DEF Nickname, Refuses
  <2>4. Players(at) = {Nickname(k) : k \in Seated(at)}
    BY DEF Seating, SeatingOK
  <2>5. \A j, k \in Seated(at)' : Nickname(j)' = Nickname(k)' => j = k
    BY <1>10, <2>1, <2>3, <2>4 DEF Seating, SeatingOK
  <2>6. Players(at)' = Players(at) \cup {n}
    BY <1>3, <1>4, NextMatch, PlayersAre
  <2>7. Players(at)' = {Nickname(k)' : k \in Seated(at)'}
    BY <1>10, <2>1, <2>3, <2>4, <2>6
  <2>8. (Sound(MatchOf(at)) /\ Distinct(MatchOf(at).players))'
    BY <1>3, <1>4, NextMatch
  <2>. QED
    BY <2>2, <2>5, <2>7, <2>8 DEF SeatingOK
<1>12. ASSUME NEW id \in MatchID, id # at PROVE SeatingOK(id)'
  <2>1. Seated(id)' = Seated(id)
    BY <1>1, <1>12 DEF Seated
  <2>2. SameSeats(id)
    BY <1>7, <1>8, <1>9, <1>10, <1>12, <2>1 DEF SameSeats
  <2>. QED
    BY <1>4, <1>12, <2>2, NothingChanges DEF Seating
<1>. QED
  BY <1>6, <1>11, <1>12 DEF Seating

(* A move is handled by the match of the session that makes it.            *)
LEMMA PlayHandles ==
    ASSUME Seating, NEW h \in Handler, NEW event \in InputEvent,
           event.type \in {"Attack", "Offer", "Pass"}, Play(h, event)
    PROVE  \E at, m :
              /\ at \in MatchID
              /\ h \in Seated(at) /\ at \in DOMAIN matches
              /\ Sound(MatchOf(at)) /\ Distinct(MatchOf(at).players)
              /\ Handled(MatchOf(at), m) /\ Respond(h, at, m)
<1>. PICK at, n : at = handlerMatch[h].matchID /\ n = handlerMatch[h].nickname
  OBVIOUS
<1>1. h \in Open /\ ~Plays(h, "none")
  BY DEF Play
<1>2. /\ at \in DOMAIN matches /\ at \in MatchID /\ MatchOf(at) = matches[at]
      /\ Sound(matches[at]) /\ Distinct(matches[at].players)
      /\ IsPlayer(matches[at], n) /\ h \in Seated(at)
  BY <1>1, PlayerOfSession
<1>. PICK m : m = HandleEvent(matches[at], n, event)
  OBVIOUS
<1>3. Respond(h, at, m)
  BY DEF Play
<1>4. Handled(matches[at], m)
  <2>1. CASE event.type = "Attack"
    BY <1>2, <2>1, HandleAttackHandled DEF HandleEvent
  <2>2. CASE event.type = "Offer"
    <3>1. event.gold \in Int
      BY <2>2, ManagerAssumption DEF InputEvent
    <3>. QED
      BY <1>2, <2>2, <3>1, HandleOfferHandled DEF HandleEvent
  <2>3. CASE event.type = "Pass"
    BY <1>2, <2>3, HandlePassHandled DEF HandleEvent
  <2>. QED
    BY <2>1, <2>2, <2>3
<1>. QED
  BY <1>2, <1>3, <1>4

LEMMA PlaySeats ==
    ASSUME Seating, NEW h \in Handler, NEW event \in InputEvent,
           event.type \in {"Attack", "Offer", "Pass"}, Play(h, event)
    PROVE  Seating'
<1>1. PICK at, m :
         /\ at \in MatchID
         /\ h \in Seated(at) /\ at \in DOMAIN matches
         /\ Sound(MatchOf(at)) /\ Distinct(MatchOf(at).players)
         /\ Handled(MatchOf(at), m) /\ Respond(h, at, m)
  BY PlayHandles
<1>3. /\ matches' = SetMatch(at, m)
      /\ UNCHANGED << sessions, handlerMatch, matchHandlers >>
  BY <1>1 DEF Respond
<1>5. /\ Sound(m) /\ Distinct(m.players)
      /\ NamesOf(m) = NamesOf(MatchOf(at))
  BY <1>1, HandledSound, HandledKeeps, KeepsNames DEF Sound
<1>6. /\ DOMAIN matches' = DOMAIN matches \cup {at}
      /\ MatchOf(at)' = m
      /\ \A id : id # at => MatchOf(id)' = MatchOf(id)
  BY <1>3, SetMatchAt, Zenon
<1>7. MapsOK'
  BY <1>1, <1>3, <1>6 DEF Seating, MapsOK
<1>8. ASSUME NEW id \in MatchID PROVE SeatingOK(id)'
  <2>1. SameSeats(id)
    BY <1>3 DEF SameSeats, Seated, Open, Plays, Nickname
  <2>2. CASE id = at
    <3>1. Sound(MatchOf(id)') /\ Distinct(MatchOf(id)'.players)
          /\ NamesOf(MatchOf(id)') = NamesOf(MatchOf(id))
      BY <1>5, <1>6, <2>2
    <3>. QED
      BY <2>1, <3>1, SeatsStay DEF Seating
  <2>3. CASE id # at
    BY <1>6, <2>1, <2>3, NothingChanges DEF Seating
  <2>. QED
    BY <2>2, <2>3
<1>. QED
  BY <1>7, <1>8 DEF Seating

-----------------------------------------------------------------------------
(* The specification.                                                      *)

LEMMA UnchangedSeats ==
    ASSUME Seating, UNCHANGED << sessions, matches, handlerMatch, matchHandlers >>
    PROVE  Seating'
<1>1. MapsOK'
  BY DEF Seating, MapsOK
<1>2. ASSUME NEW id \in MatchID PROVE SeatingOK(id)'
  <2>1. SameSeats(id)
    BY DEF SameSeats, Seated, Open, Plays, Nickname
  <2>. QED
    BY <2>1, MatchStays, NothingChanges DEF Seating
<1>. QED
  BY <1>1, <1>2 DEF Seating

LEMMA DispatchSeats ==
    ASSUME Seating, NEW h \in Handler, NEW event \in InputEvent,
           DispatchMessage(h, event)
    PROVE  Seating'
<1>1. CASE event.type = "Error"
  BY <1>1, UnchangedSeats DEF DispatchMessage, ReceiveInvalid
<1>2. CASE event.type = "JoinMatchRequest"
  <2>1. event.matchID \in MatchID /\ event.nickname \in Name
    BY <1>2 DEF InputEvent
  <2>2. CASE JoinMatchRefused(h, event.matchID, event.nickname)
    BY <2>2, UnchangedSeats DEF JoinMatchRefused
  <2>3. CASE JoinMatch(h, event.matchID, event.nickname)
    BY <2>1, <2>3, JoinMatchSeats
  <2>. QED
    BY <1>2, <2>2, <2>3 DEF DispatchMessage
<1>3. CASE event.type \in {"Attack", "Offer", "Pass"}
  BY <1>3, PlaySeats DEF DispatchMessage
<1>. QED
  BY <1>1, <1>2, <1>3 DEF InputEvent

LEMMA SeatingInvariant == FreshSpec => []Seating
<1>1. Seating /\ [FreshNext]_vars => Seating'
  <2>. SUFFICES ASSUME Seating, [FreshNext]_vars PROVE Seating'
    OBVIOUS
  <2>1. ASSUME NEW h \in Handler, h \notin DOMAIN handlerMatch, Create(h)
        PROVE  Seating'
    BY <2>1, CreateSeats
  <2>2. ASSUME NEW h \in Handler, Calls(h) PROVE Seating'
    BY <2>2, JoinSeats, LeaveSeats, DispatchSeats DEF Calls
  <2>3. CASE UNCHANGED vars
    BY <2>3, UnchangedSeats DEF vars
  <2>. QED
    BY <2>1, <2>2, <2>3 DEF FreshNext
<1>. QED
  BY <1>1, InitSeating, PTL DEF FreshSpec

(* Players have a nickname each: as many players as nicknames.             *)
LEMMA AsManyNames ==
    ASSUME NEW m, MatchType(m), Distinct(m.players)
    PROVE  /\ IsFiniteSet(NamesOf(m))
           /\ Cardinality(NamesOf(m)) = Len(m.players)
<1>. DEFINE len == Len(m.players)
            S == 1..len
            f == [i \in S |-> m.players[i].name]
<1>1. len \in Nat
  BY DEF MatchType
<1>. HIDE DEF len
<1>2. IsFiniteSet(S) /\ Cardinality(S) = len
  <2>1. /\ IsFiniteSet(1..len)
        /\ Cardinality(1..len) = IF 1 > len THEN 0 ELSE len - 1 + 1
    BY <1>1, FS_Interval
  <2>. QED
    BY <1>1, <2>1
<1>3. NamesOf(m) = {m.players[i].name : i \in S}
  BY NamesByPosition DEF len
<1>4. \A i, j \in S : m.players[i].name = m.players[j].name => i = j
  BY DEF Distinct, len
<1>. HIDE DEF S
<1>5. f \in Bijection(S, NamesOf(m))
  BY <1>3, <1>4 DEF Bijection, Injection, Surjection, IsInjective
<1>. QED
  BY <1>2, <1>5, FS_Bijection DEF ExistsBijection, len

LEMMA SeatingFits ==
    ASSUME Seating, NEW id \in MatchID
    PROVE  Cardinality(Seated(id)) = Len(MatchOf(id).players)
<1>. DEFINE S == Seated(id)
            T == NamesOf(MatchOf(id))
            f == [h \in S |-> Nickname(h)]
            g == [n \in T |-> CHOOSE h \in S : Nickname(h) = n]
<1>1. /\ IsFiniteSet(T) /\ Cardinality(T) = Len(MatchOf(id).players)
  BY AsManyNames DEF Seating, SeatingOK, Sound
<1>2. T = {Nickname(h) : h \in S}
      /\ \A h, k \in S : Nickname(h) = Nickname(k) => h = k
  BY PlayersAre DEF Seating, SeatingOK
<1>. HIDE DEF S, T
<1>3. \A n \in T : g[n] \in S /\ Nickname(g[n]) = n
  BY <1>2
<1>4. \A h \in S : Nickname(h) \in T /\ g[Nickname(h)] = h
  BY <1>2, <1>3
<1>5. g \in [T -> S]
  BY <1>3
<1>6. g \in Bijection(T, S)
  BY <1>3, <1>4, <1>5 DEF Bijection, Injection, Surjection, IsInjective
<1>7. Cardinality(S) = Cardinality(T)
  BY <1>1, <1>6, FS_Bijection DEF ExistsBijection
<1>. QED
  BY <1>1, <1>7 DEF S

(* Whoever connects, joins, plays, is refused, closes and connects again:  *)
(* the sessions a match broadcasts to are open and, one to one, its        *)
(* players.                                                                *)
THEOREM SeatsAreTaken == FreshSpec => []SeatsArePlayers
<1>1. Seating => SeatsArePlayers
  <2>. SUFFICES ASSUME Seating, NEW id \in MatchID
                PROVE  /\ \A h \in Seated(id) : h \in Open /\ Plays(h, id)
                       /\ {handlerMatch[h].nickname : h \in Seated(id)} = Players(id)
                       /\ Cardinality(Seated(id)) = Len(MatchOf(id).players)
    BY DEF SeatsArePlayers
  <2>1. Seated(id) \subseteq Handler
    BY DEF Seated
  <2>. QED
    BY <2>1, SeatingFits DEF Seating, SeatingOK, Nickname
<1>. QED
  BY <1>1, SeatingInvariant, PTL

(* No sequence of messages and connections makes a match panic, which      *)
(* would abort the server with all its matches.                            *)
THEOREM ServerStaysUp == FreshSpec => []Up
<1>1. Seating => Up
  BY DEF Seating, SeatingOK, Sound, MapsOK, MatchOf, Up
<1>. QED
  BY <1>1, SeatingInvariant, PTL
-----------------------------------------------------------------------------
(* What is sent.                                                           *)

(* The update a handler leaves is never empty, and an Error exactly if the *)
(* input was refused.                                                      *)
LEMMA HandledSays ==
    ASSUME NEW m, Sound(m), NEW r, Handled(m, r)
    PROVE  /\ r.updateEvent \in Seq(Update) /\ r.updateEvent # <<>>
           /\ r.updateEvent = Error => r = SetError(m)
<1>1. r.updateEvent \in Seq(Update)
  BY HandledSound DEF Sound, MatchType
<1>2. CASE r = SetError(m)
  <2>1. r.updateEvent = Error
    BY <1>2 DEF Sound, MatchType, SetError
  <2>. QED
    BY <1>1, <1>2, <2>1 DEF Error
<1>3. CASE r # SetError(m)
  <2>1. PICK b : Bids(m, b) /\ r = ProcessPhase(b)
    BY <1>3 DEF Handled
  <2>2. PICK i \in 1..Len(m.players) : Says(m, b, i)
    BY <2>1 DEF Bids
  <2>3. PICK type \in {"Attack", "Offer", "Pass"}, gold \in Nat :
           b.updateEvent = << Event(type, NameAt(m, i), gold) >>
    BY <2>2 DEF Says
  <2>. DEFINE event == Event(type, NameAt(m, i), gold)
  <2>4. event.type = type
    BY DEF Event
  <2>5. PICK es \in Seq(Update) : r.updateEvent = << event >> \o es
    BY <2>1, <2>3, ProcessPhaseAdds DEF Bids, Adds
  <2>6. event \in Update
    <3>1. b.updateEvent \in Seq(Update)
      BY <2>1 DEF Bids, Playing, Sound, MatchType
    <3>2. << event >>[1] \in Update
      BY <2>3, <3>1, ElementOfSeq
    <3>. QED
      BY <3>2
  <2>. HIDE DEF event
  <2>7. r.updateEvent[1] = event /\ Len(r.updateEvent) # 0
    BY <2>5, <2>6
  <2>8. r.updateEvent # Error
    BY <2>4, <2>7 DEF Error, Event
  <2>. QED
    BY <1>1, <2>7, <2>8
<1>. QED
  BY <1>2, <1>3

(* So is that of a match that starts.                                      *)
LEMMA StartSays ==
    ASSUME NEW m, Sound(m), m.players # <<>>, Undisputed(m), NEW r \in Starts(m)
    PROVE  r.updateEvent \in Seq(Update) /\ r.updateEvent # <<>>
<1>. DEFINE n == [m EXCEPT !.updateEvent = MovedFrom(m.updateEvent)]
<1>1. MatchType(m)
  BY DEF Sound
<1>2. MatchType(n) /\ n.fault = m.fault /\ n.players = m.players
      /\ n.currentPhase = m.currentPhase /\ n.currentOffer = m.currentOffer
      /\ n.cardsInAuction = m.cardsInAuction
      /\ n.currentAttack = m.currentAttack
  <2>1. MovedFrom(m.updateEvent) \in Seq(Update)
    BY <1>1 DEF MatchType, MovedFrom
  <2>. QED
    BY <1>1, <2>1 DEF MatchType
<1>3. PICK a \in DOMAIN m.players, d \in Shuffles(m.deck) :
        r = ProcessPhase(OnGameStartPhase(n, a, d))
  BY DEF Starts
<1>4. d \in Seq(Card) /\ DOMAIN m.players = 1..Len(m.players)
  BY <1>1, DeckAssumption DEF Shuffles, MatchType
<1>. HIDE DEF n
<1>5. Sound(n) /\ Undisputed(n)
  BY <1>2 DEF Sound, Covered, Undisputed
<1>. DEFINE g == OnGameStartPhase(n, a, d)
<1>6. Playing(g)
  BY <1>2, <1>4, <1>5, GameStartSound
<1>7. g.updateEvent = n.updateEvent \o Opening(n, a)
  BY <1>2, GameStartResult
<1>8. Opening(n, a) \in Seq(Update) /\ Opening(n, a) # <<>>
  BY <1>2, <1>4, OpeningType
<1>. HIDE DEF g
<1>9. PICK es \in Seq(Update) : r.updateEvent = g.updateEvent \o es
  BY <1>3, <1>6, ProcessPhaseAdds DEF Adds, g
<1>10. n.updateEvent \in Seq(Update)
  BY <1>2 DEF MatchType
<1>11. r.updateEvent \in Seq(Update) /\ Len(r.updateEvent) # 0
  BY <1>7, <1>8, <1>9, <1>10
<1>. QED
  BY <1>11

LEMMA MatchInfoType ==
    ASSUME NEW m, MatchType(m)
    PROVE  MatchInfo(m) \in OutputEvent \ {<<>>}
<1>. DEFINE names == [i \in DOMAIN m.players |-> NameAt(m, i)]
            info == [type |-> "MatchInfo", players |-> names, deck |-> m.deck]
<1>1. DOMAIN m.players = 1..Len(m.players) /\ Len(m.players) \in Nat
  BY DEF MatchType
<1>2. names \in Seq(Name)
  BY <1>1, NameIsTyped, IsASeq
<1>3. m.deck \in Seq(Int)
  <2>. DEFINE d == m.deck
  <2>1. d \in Seq(Card)
    BY DEF MatchType
  <2>. HIDE DEF d
  <2>2. \A k \in 1..Len(d) : d[k] \in Int
    BY <2>1, CardIsInt, ElementOfSeq
  <2>3. d = [k \in 1..Len(d) |-> d[k]] /\ Len(d) \in Nat
    BY <2>1
  <2>4. [k \in 1..Len(d) |-> d[k]] \in Seq(Int)
    BY <2>2, <2>3, IsASeq
  <2>. QED
    BY <2>3, <2>4 DEF d
<1>4. info \in [type : {"MatchInfo"}, players : Seq(Name), deck : Seq(Int)]
  BY <1>2, <1>3
<1>5. MatchInfo(m) = << info >>
  BY DEF MatchInfo, MatchInfoOf
<1>. HIDE DEF info
<1>. QED
  BY <1>4, <1>5 DEF OutputEvent

LEMMA EventsOut ==
    /\ Error \in OutputEvent \ {<<>>}
    /\ \A n \in Name : JoinMatchResult(n) \in OutputEvent \ {<<>>}
    /\ \A es \in Seq(Update) : es # <<>> => es \in OutputEvent \ {<<>>}
<1>1. Error \in Seq(Update) /\ Error # <<>>
  BY EventIsUpdate DEF Error, EventType
<1>2. \A n \in Name : JoinMatchResult(n) \in Seq(Update) /\ JoinMatchResult(n) # <<>>
  BY EventIsUpdate DEF JoinMatchResult, EventType
<1>. QED
  BY <1>1, <1>2 DEF OutputEvent
SentOK == sentMessages \in [Handler -> Seq(OutputEvent \ {<<>>})]

LEMMA SendsAreTyped ==
    /\ SendsNothing => SentOK'
    /\ \A receivers, message :
          message \in OutputEvent \ {<<>>} /\ SendsTo(receivers, message) => SentOK'
<1>1. SendsNothing => SentOK'
  BY DEF SendsNothing, SentOK
<1>2. ASSUME NEW receivers, NEW message \in OutputEvent \ {<<>>},
             SendsTo(receivers, message)
      PROVE  SentOK'
  <2>1. << message >> \in Seq(OutputEvent \ {<<>>})
        /\ <<>> \in Seq(OutputEvent \ {<<>>})
    OBVIOUS
  <2>. QED
    BY <1>2, <2>1 DEF SendsTo, SentOK
<1>. QED
  BY <1>1, <1>2

LEMMA JoinMatchSends ==
    ASSUME Seating, NEW h \in Handler, NEW at \in MatchID, NEW n \in Name,
           JoinMatch(h, at, n)
    PROVE  SentOK'
<1>. DEFINE old == MatchOf(at)
            joined == AddPlayer(old, n)
            Out == OutputEvent \ {<<>>}
            Welcome(k) == IF k = h THEN << MatchInfo(joined) >>
                          ELSE IF k \in Seated(at) THEN << JoinMatchResult(n) >>
                          ELSE <<>>
<1>1. ~Refuses(at, n)
  BY DEF JoinMatch
<1>2. /\ Sound(old) /\ old.currentPhase \in {"WaitForStart", "Finished"}
  BY <1>1 DEF Seating, SeatingOK, Refuses, IsRunning
<1>3. Sound(joined) /\ Undisputed(joined) /\ joined.players # <<>>
  BY <1>2, AddPlayerSound
<1>4. MatchInfo(joined) \in Out /\ JoinMatchResult(n) \in Out
  <2>1. MatchType(joined)
    BY <1>3 DEF Sound
  <2>. QED
    BY <2>1, MatchInfoType, EventsOut
<1>5. \A k \in Handler : Welcome(k) \in Seq(Out)
  <2>. HIDE DEF Out, joined
  <2>. QED
    BY <1>4
<1>6. CASE sentMessages' = [k \in Handler |-> Welcome(k)]
  BY <1>5, <1>6 DEF SentOK
<1>7. ASSUME NEW m \in Starts(joined),
             sentMessages' = [k \in Handler |-> Welcome(k) \o
                IF k = h \/ k \in Seated(at) THEN << m.updateEvent >> ELSE <<>>]
      PROVE  SentOK'
  <2>1. m.updateEvent \in Out
    BY <1>3, StartSays, EventsOut
  <2>. HIDE DEF Out, Welcome, joined
  <2>2. \A k \in Handler :
          (IF k = h \/ k \in Seated(at) THEN << m.updateEvent >> ELSE <<>>) \in Seq(Out)
    BY <2>1
  <2>3. \A k \in Handler : Welcome(k) \o
          (IF k = h \/ k \in Seated(at) THEN << m.updateEvent >> ELSE <<>>) \in Seq(Out)
    BY <1>5, <2>2, ConcatProperties
  <2>. QED
    BY <1>7, <2>3 DEF SentOK, Out
<1>. QED
  BY <1>6, <1>7 DEF JoinMatch

LEMMA PlaySends ==
    ASSUME Seating, NEW h \in Handler, NEW event \in InputEvent,
           event.type \in {"Attack", "Offer", "Pass"}, Play(h, event)
    PROVE  SentOK'
<1>1. PICK at, m :
         /\ at \in MatchID
         /\ h \in Seated(at) /\ at \in DOMAIN matches
         /\ Sound(MatchOf(at)) /\ Distinct(MatchOf(at).players)
         /\ Handled(MatchOf(at), m) /\ Respond(h, at, m)
  BY PlayHandles
<1>2. m.updateEvent \in Seq(Update) /\ m.updateEvent # <<>>
  BY <1>1, HandledSays
<1>3. m.updateEvent \in OutputEvent \ {<<>>} /\ Error \in OutputEvent \ {<<>>}
  BY <1>2, EventsOut
<1>. QED
  BY <1>1, <1>3, SendsAreTyped DEF Respond

LEMMA CallsSend ==
    ASSUME Seating, NEW h \in Handler, Create(h) \/ Calls(h)
    PROVE  SentOK'
<1>1. CASE Create(h) \/ Join(h) \/ Leave(h)
  BY <1>1, SendsAreTyped DEF Create, Join, Leave
<1>2. ASSUME NEW event \in InputEvent, DispatchMessage(h, event) PROVE SentOK'
  <2>1. CASE event.type = "Error"
    BY <1>2, <2>1, SendsAreTyped, EventsOut DEF DispatchMessage, ReceiveInvalid
  <2>2. CASE event.type = "JoinMatchRequest"
    <3>1. event.matchID \in MatchID /\ event.nickname \in Name
      BY <2>2 DEF InputEvent
    <3>2. CASE JoinMatchRefused(h, event.matchID, event.nickname)
      BY <3>2, SendsAreTyped, EventsOut DEF JoinMatchRefused
    <3>3. CASE JoinMatch(h, event.matchID, event.nickname)
      BY <3>1, <3>3, JoinMatchSends
    <3>. QED
      BY <1>2, <2>2, <3>2, <3>3 DEF DispatchMessage
  <2>3. CASE event.type \in {"Attack", "Offer", "Pass"}
    BY <1>2, <2>3, PlaySends DEF DispatchMessage
  <2>. QED
    BY <2>1, <2>2, <2>3 DEF InputEvent
<1>. QED
  BY <1>1, <1>2 DEF Calls

(* The maps agree in their types, and whatever clients send, no client is  *)
(* ever sent an update without an event.                                   *)
THEOREM ManagerTypeCorrect == FreshSpec => []TypeOK
<1>1. Init => SentOK
  BY DEF Init, SentOK
<1>2. Seating /\ SentOK /\ [FreshNext]_vars => SentOK'
  BY CallsSend DEF FreshNext, vars, SentOK
<1>3. Seating /\ SentOK => TypeOK
  BY DEF Seating, MapsOK, SentOK, TypeOK
<1>. QED
  BY <1>1, <1>2, <1>3, SeatingInvariant, PTL DEF FreshSpec
-----------------------------------------------------------------------------
(* Clients of a match stay in step.                                        *)

(* What is asked of a step for each match.                                 *)
InStep(id) ==
    \/ \A h, k \in Seated(id) \cap Seated(id)' :
          sentMessages'[h] = sentMessages'[k]
    \/ \E h \in Seated(id) :
        /\ \A k \in Handler :
              sentMessages'[k] = IF k = h THEN << Error >> ELSE <<>>
        /\ MatchOf(id)' = [MatchOf(id) EXCEPT
                            !.updateEvent = MatchOf(id)'.updateEvent]

LEMMA SilenceInStep ==
    ASSUME NEW id, SendsNothing
    PROVE  InStep(id)
BY DEF SendsNothing, InStep, Seated

(* Who plays in one match has no seat in another.                          *)
LEMMA OneSeat ==
    ASSUME Seating, NEW id \in MatchID, NEW at \in MatchID, id # at
    PROVE  Seated(id) \cap Seated(at) = {}
BY DEF Seating, SeatingOK, Seated, Plays

LEMMA NoSeat ==
    ASSUME Seating, NEW id \in MatchID, NEW h \in Handler, Plays(h, "none")
    PROVE  h \notin Seated(id)
BY ManagerAssumption DEF Seating, SeatingOK, Plays

(* A refusal is sent to one client, and changes nothing else.              *)
LEMMA RefusalInStep ==
    ASSUME Seating, NEW id \in MatchID, NEW h \in Handler, SendsTo({h}, Error),
           h \in Seated(id) =>
              \/ MatchOf(id)' = MatchOf(id)
              \/ MatchOf(id)' = SetError(MatchOf(id))
    PROVE  InStep(id)
<1>. DEFINE m == MatchOf(id)
            r == MatchOf(id)'
<1>1. \A k \in Handler :
        sentMessages'[k] = IF k = h THEN << Error >> ELSE <<>>
  BY DEF SendsTo
<1>2. CASE h \in Seated(id)
  <2>1. r = m \/ r = SetError(m)
    BY <1>2
  <2>2. MatchType(m)
    BY DEF Seating, SeatingOK, Sound
  <2>. HIDE DEF m, r
  <2>3. r = [m EXCEPT !.updateEvent = r.updateEvent]
    BY <2>1, <2>2 DEF MatchType, SetError
  <2>. QED
    BY <1>1, <1>2, <2>3 DEF InStep, m, r
<1>3. CASE h \notin Seated(id)
  BY <1>1, <1>3 DEF InStep, Seated
<1>. QED
  BY <1>2, <1>3

LEMMA JoinMatchInStep ==
    ASSUME Seating, NEW h \in Handler, NEW at \in MatchID, NEW n \in Name,
           JoinMatch(h, at, n), NEW id \in MatchID
    PROVE  InStep(id)
<1>. DEFINE joined == AddPlayer(MatchOf(at), n)
            Welcome(k) == IF k = h THEN << MatchInfo(joined) >>
                          ELSE IF k \in Seated(at) THEN << JoinMatchResult(n) >>
                          ELSE <<>>
<1>1. h \notin Seated(id)
  BY NoSeat DEF JoinMatch
<1>2. Seated(id) \subseteq Handler
  BY DEF Seated
<1>3. id # at => \A k \in Seated(id) : k \notin Seated(at)
  BY OneSeat
<1>4. CASE sentMessages' = [k \in Handler |-> Welcome(k)]
  <2>. HIDE DEF joined
  <2>. QED
    BY <1>1, <1>2, <1>3, <1>4 DEF InStep
<1>5. ASSUME NEW m,
             sentMessages' = [k \in Handler |-> Welcome(k) \o
                IF k = h \/ k \in Seated(at) THEN << m.updateEvent >> ELSE <<>>]
      PROVE  InStep(id)
  <2>. HIDE DEF joined
  <2>. QED
    BY <1>1, <1>2, <1>3, <1>5 DEF InStep
<1>. QED
  BY <1>4, <1>5 DEF JoinMatch

LEMMA PlayInStep ==
    ASSUME Seating, NEW h \in Handler, NEW event \in InputEvent,
           event.type \in {"Attack", "Offer", "Pass"}, Play(h, event),
           NEW id \in MatchID
    PROVE  InStep(id)
<1>1. PICK at, m :
         /\ at \in MatchID
         /\ h \in Seated(at) /\ at \in DOMAIN matches
         /\ Sound(MatchOf(at)) /\ Distinct(MatchOf(at).players)
         /\ Handled(MatchOf(at), m) /\ Respond(h, at, m)
  BY PlayHandles
<1>2. /\ MatchOf(at)' = m /\ UNCHANGED matchHandlers
  BY <1>1, SetMatchAt, Zenon DEF Respond
<1>3. CASE SendsNothing
  BY <1>3, SilenceInStep
<1>4. CASE m.updateEvent = Error /\ SendsTo({h}, Error)
  <2>1. m = SetError(MatchOf(at))
    BY <1>1, <1>4, HandledSays
  <2>2. h \in Seated(id) => id = at
    BY <1>1, OneSeat
  <2>. QED
    BY <1>2, <1>4, <2>1, <2>2, RefusalInStep
<1>5. CASE SendsTo(Seated(at), m.updateEvent)
  <2>1. id # at => Seated(id) \cap Seated(at) = {}
    BY <1>1, OneSeat
  <2>2. Seated(id) \subseteq Handler
    BY DEF Seated
  <2>3. \A k, l \in Seated(id) : sentMessages'[k] = sentMessages'[l]
    BY <1>5, <2>1, <2>2 DEF SendsTo
  <2>. QED
    BY <2>3 DEF InStep
<1>. QED
  BY <1>1, <1>3, <1>4, <1>5 DEF Respond

LEMMA CallsInStep ==
    ASSUME Seating, NEW h \in Handler, Create(h) \/ Calls(h), NEW id \in MatchID
    PROVE  InStep(id)
<1>1. CASE Create(h) \/ Join(h) \/ Leave(h)
  BY <1>1, SilenceInStep DEF Create, Join, Leave
<1>2. ASSUME NEW event \in InputEvent, DispatchMessage(h, event) PROVE InStep(id)
  <2>1. CASE event.type = "Error"
    BY <1>2, <2>1, RefusalInStep, MatchStays DEF DispatchMessage, ReceiveInvalid
  <2>2. CASE event.type = "JoinMatchRequest"
    <3>1. event.matchID \in MatchID /\ event.nickname \in Name
      BY <2>2 DEF InputEvent
    <3>2. CASE JoinMatchRefused(h, event.matchID, event.nickname)
      BY <3>2, RefusalInStep, MatchStays DEF JoinMatchRefused
    <3>3. CASE JoinMatch(h, event.matchID, event.nickname)
      BY <3>1, <3>3, JoinMatchInStep
    <3>. QED
      BY <1>2, <2>2, <3>2, <3>3 DEF DispatchMessage
  <2>3. CASE event.type \in {"Attack", "Offer", "Pass"}
    BY <1>2, <2>3, PlayInStep DEF DispatchMessage
  <2>. QED
    BY <2>1, <2>2, <2>3 DEF InputEvent
<1>. QED
  BY <1>1, <1>2 DEF Calls

(* No client of a match is told what another one is not, unless it is the  *)
(* one that was refused, and then nothing happened to the match.           *)
THEOREM SameForAll == FreshSpec => ClientsInStep
<1>. DEFINE Step == \A id \in MatchID : InStep(id)
<1>1. Seating /\ [FreshNext]_vars => [Step]_vars
  BY CallsInStep DEF FreshNext
<1>2. FreshSpec => [][Step]_vars
  BY <1>1, SeatingInvariant, PTL DEF FreshSpec
<1>. QED
  BY <1>2 DEF ClientsInStep, InStep
=============================================================================
