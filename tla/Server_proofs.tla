---------------------------- MODULE Server_proofs ----------------------------
(***************************************************************************)
(* Theorems about Server, for any number of addresses, matches, players    *)
(* and messages: the pointers the manager keeps are to sessions that are   *)
(* alive, and every session behaves as WebsocketSession says.              *)
(***************************************************************************)
EXTENDS Server, ServerManager_proofs

(* A queue of messages and its write: what is written is its front.        *)
Outbox == [queue : Seq({SomeMessage}), writing : Seq({SomeMessage})]

WritesFront(o) ==
    o.writing # <<>> => o.queue # <<>> /\ o.writing = << Head(o.queue) >>

(* What sendMessage() makes of it.                                         *)
More(o) ==
    [queue   |-> Append(o.queue, SomeMessage),
     writing |-> IF o.queue = <<>> THEN << SomeMessage >> ELSE o.writing]

LEMMA MessagesAre ==
    ASSUME NEW q \in Seq({SomeMessage})
    PROVE  /\ q # <<>> => Head(q) = SomeMessage
           /\ Append(q, SomeMessage) \in Seq({SomeMessage})
           /\ Append(q, SomeMessage) # <<>>
           /\ Head(Append(q, SomeMessage)) = SomeMessage
           /\ Len(Append(q, SomeMessage)) = Len(q) + 1
BY DEF SomeMessage

LEMMA DoWriteStarts ==
    ASSUME NEW h, NEW q, NEW w
    PROVE  Session(h)!DoWrite([queue |-> q, writing |-> w])
              = [queue |-> q, writing |-> Append(w, Head(q))]
<1>. DEFINE o == [queue |-> q, writing |-> w]
<1>1. o.queue = q /\ o.writing = w
  OBVIOUS
<1>2. Session(h)!DoWrite(o) = [o EXCEPT !.writing = Append(w, Head(q))]
  BY <1>1, Zenon DEF Session!DoWrite
<1>. QED
  BY <1>2

LEMMA SendMessageIs ==
    ASSUME NEW h, NEW o \in Outbox, WritesFront(o)
    PROVE  Session(h)!SendMessage(o, SomeMessage) = More(o)
<1>. DEFINE q == Append(o.queue, SomeMessage)
            p == [queue |-> q, writing |-> o.writing]
<1>1. o.queue \in Seq({SomeMessage}) /\ o.writing \in Seq({SomeMessage})
  BY DEF Outbox
<1>2. /\ q \in Seq({SomeMessage}) /\ Head(q) = SomeMessage
      /\ Len(q) = Len(o.queue) + 1
  BY <1>1, MessagesAre
<1>3. [o EXCEPT !.queue = q] = p
  <2>. HIDE DEF q
  <2>. QED
    BY DEF Outbox
<1>4. Session(h)!SendMessage(o, SomeMessage)
        = IF Len(p.queue) > 1 THEN p ELSE Session(h)!DoWrite(p)
  BY <1>3, Zenon DEF Session!SendMessage
<1>5. Session(h)!DoWrite(p) = [queue |-> q, writing |-> Append(o.writing, Head(q))]
  BY DoWriteStarts, Zenon
<1>6. CASE o.queue = <<>>
  <2>1. Len(p.queue) = 1 /\ o.writing = <<>>
    BY <1>1, <1>2, <1>6 DEF WritesFront
  <2>2. Append(o.writing, Head(q)) = << SomeMessage >>
    BY <1>2, <2>1
  <2>. QED
    BY <1>4, <1>5, <1>6, <2>1, <2>2 DEF More
<1>7. CASE o.queue # <<>>
  <2>1. Len(p.queue) > 1
    BY <1>1, <1>2, <1>7
  <2>. QED
    BY <1>4, <1>7, <2>1 DEF More
<1>. QED
  BY <1>6, <1>7

LEMMA MoreQueues ==
    ASSUME NEW o \in Outbox, WritesFront(o)
    PROVE  /\ More(o) \in Outbox /\ WritesFront(More(o))
           /\ More(o).queue = Append(o.queue, SomeMessage)
           /\ Len(More(o).queue) = Len(o.queue) + 1
           /\ More(o).queue # <<>>
           /\ o.writing # <<>> => More(o).writing # <<>>
           /\ (More(o).writing = <<>>) <=> (o.writing = <<>> /\ o.queue # <<>>)
<1>1. o.queue \in Seq({SomeMessage}) /\ o.writing \in Seq({SomeMessage})
  BY DEF Outbox
<1>2. << SomeMessage >> \in Seq({SomeMessage})
  OBVIOUS
<1>3. /\ Append(o.queue, SomeMessage) \in Seq({SomeMessage})
      /\ Append(o.queue, SomeMessage) # <<>>
      /\ Head(Append(o.queue, SomeMessage)) = SomeMessage
      /\ Len(Append(o.queue, SomeMessage)) = Len(o.queue) + 1
      /\ o.queue # <<>> => Head(o.queue) = SomeMessage
  BY <1>1, MessagesAre
<1>. DEFINE q == Append(o.queue, SomeMessage)
            w == IF o.queue = <<>> THEN << SomeMessage >> ELSE o.writing
<1>4. w \in Seq({SomeMessage}) /\ << SomeMessage >> # <<>>
  BY <1>1, <1>2
<1>5. /\ w # <<>> => w = << Head(q) >>
      /\ o.writing # <<>> => w # <<>>
      /\ (w = <<>>) <=> (o.writing = <<>> /\ o.queue # <<>>)
  BY <1>3, <1>4 DEF WritesFront
<1>6. More(o) = [queue |-> q, writing |-> w]
  BY DEF More
<1>. HIDE DEF q, w
<1>7. More(o) \in Outbox /\ More(o).queue = q /\ More(o).writing = w
  BY <1>3, <1>4, <1>6 DEF Outbox, q
<1>. QED
  BY <1>3, <1>5, <1>7 DEF WritesFront, q

LEMMA WrittenIs ==
    ASSUME NEW h, NEW o \in Outbox, WritesFront(o), o.writing # <<>>
    PROVE  LET r == Session(h)!Written(o)
           IN  /\ r \in Outbox /\ WritesFront(r)
               /\ r.queue = Tail(o.queue) /\ Len(r.queue) + 1 = Len(o.queue)
               /\ r.writing = <<>> <=> r.queue = <<>>
               /\ Head(o.writing) = SomeMessage
<1>. DEFINE q == Tail(o.queue)
            r == Session(h)!Written(o)
            p == [queue |-> q, writing |-> <<>>]
<1>1. /\ o.queue \in Seq({SomeMessage}) /\ o.queue # <<>>
      /\ o.writing = << Head(o.queue) >>
  BY DEF Outbox, WritesFront
<1>2. /\ q \in Seq({SomeMessage}) /\ Len(q) + 1 = Len(o.queue)
      /\ Tail(o.writing) = <<>> /\ Head(o.writing) = SomeMessage
  BY <1>1, MessagesAre
<1>3. q # <<>> => Head(q) = SomeMessage
  BY <1>2, MessagesAre
<1>4. r = IF p.queue = <<>> THEN p ELSE Session(h)!DoWrite(p)
  BY <1>2, Zenon DEF Session!Written
<1>5. Session(h)!DoWrite(p) = [queue |-> q, writing |-> Append(<<>>, Head(q))]
  BY DoWriteStarts, Zenon
<1>6. r = [queue |-> q, writing |-> IF q = <<>> THEN <<>> ELSE << SomeMessage >>]
  <2>1. Append(<<>>, SomeMessage) = << SomeMessage >>
    OBVIOUS
  <2>. HIDE DEF q, r
  <2>. QED
    BY <1>3, <1>4, <1>5, <2>1
<1>7. << SomeMessage >> \in Seq({SomeMessage}) /\ <<>> \in Seq({SomeMessage})
  OBVIOUS
<1>. HIDE DEF q, r
<1>8. r \in Outbox /\ WritesFront(r) /\ r.queue = q
      /\ (r.writing = <<>> <=> r.queue = <<>>)
  BY <1>2, <1>3, <1>6, <1>7 DEF Outbox, WritesFront
<1>. QED
  BY <1>2, <1>8 DEF q, r

(* SendMessages, for one session and what it is sent.                      *)
Queues(h, box, s) ==
    FoldLeft(LAMBDA o, m : Session(h)!SendMessage(o, SomeMessage), box, s)

(* What a call sends to a session is queued message by message.            *)
LEMMA QueuedOneByOne ==
    ASSUME NEW h, NEW box \in Outbox, WritesFront(box), NEW S, NEW s \in Seq(S)
    PROVE  LET r == Queues(h, box, s)
           IN  /\ Len(s) = 0 => r = box
               /\ Len(s) = 1 => r = More(box)
               /\ Len(s) = 2 => r = More(More(box))
<1>. DEFINE len == Len(s)
            Rec(it) == it = [t \in SUBSET (1..len) |->
                          IF t = {} THEN box
                          ELSE Session(h)!SendMessage(it[t \ {Max(t)}], SomeMessage)]
            iter == CHOOSE it : Rec(it)
            Good == {x \in Outbox : WritesFront(x)}
            step == [x \in Good \X S |-> More(x[1])]
            r == Queues(h, box, s)
<1>1. DOMAIN s = 1..len /\ len \in Nat /\ \A i \in 1..len : s[i] \in S
  OBVIOUS
<1>2. r = iter[1..len]
  BY <1>1 DEF Queues, FoldLeft, MapThenFoldSet
<1>3. step \in [Good \X S -> Good] /\ box \in Good
  BY MoreQueues
<1>4. PICK g \in [SUBSET (1..len) -> Good] : FoldsTo(g, len, step, box, s)
  BY <1>3, FoldExists
<1>5. \A t \in SUBSET (1..len) : t # {} =>
        /\ Max(t) \in 1..len /\ s[Max(t)] \in S /\ t \ {Max(t)} \in SUBSET (1..len)
  BY <1>1, MaxOf
<1>6. Rec(g)
  <2>1. ASSUME NEW t \in SUBSET (1..len), t # {}
        PROVE  g[t] = Session(h)!SendMessage(g[t \ {Max(t)}], SomeMessage)
    <3>1. g[t \ {Max(t)}] \in Good
      BY <1>5, <2>1
    <3>2. g[t] = More(g[t \ {Max(t)}])
      BY <1>4, <1>5, <2>1, <3>1 DEF FoldsTo
    <3>. QED
      BY <3>1, <3>2, SendMessageIs
  <2>2. g[{}] = box
    BY <1>4 DEF FoldsTo
  <2>3. \A t \in SUBSET (1..len) :
          g[t] = IF t = {} THEN box
                 ELSE Session(h)!SendMessage(g[t \ {Max(t)}], SomeMessage)
    BY <2>1, <2>2
  <2>. QED
    BY <2>3
<1>7. Rec(iter)
  <2>. HIDE DEF Rec
  <2>. QED
    BY <1>6
<1>. HIDE DEF iter, r
<1>8. /\ iter[{}] = box
      /\ \A t \in SUBSET (1..len) : t # {} =>
           iter[t] = Session(h)!SendMessage(iter[t \ {Max(t)}], SomeMessage)
  BY <1>7
<1>9. len = 0 => r = box
  <2>. SUFFICES ASSUME len = 0 PROVE iter[1..len] = box
    BY <1>2, Zenon
  <2>1. 1..len = {}
    OBVIOUS
  <2>. QED
    BY <1>8, <2>1
<1>10. ASSUME len \in {1, 2} PROVE iter[1..1] = More(box)
  <2>1. /\ 1..1 \in SUBSET (1..len) /\ 1..1 # {}
        /\ Max(1..1) = 1 /\ (1..1) \ {1} = {}
    <3>1. 1..0 = {} /\ 1 - 1 = 0 /\ 1 \in Nat \ {0}
      OBVIOUS
    <3>2. Max(1..1) = 1 /\ (1..1) \ {1} = 1..(1 - 1) /\ 1..1 # {}
      BY <3>1, MaxOfInterval, Zenon
    <3>3. 1..1 \in SUBSET (1..len)
      BY <1>10
    <3>. QED
      BY <3>1, <3>2, <3>3
  <2>2. iter[1..1] = Session(h)!SendMessage(box, SomeMessage)
    BY <1>8, <2>1
  <2>. QED
    BY <2>2, SendMessageIs
<1>11. len = 2 => r = More(More(box))
  <2>. SUFFICES ASSUME len = 2 PROVE iter[1..len] = More(More(box))
    BY <1>2, Zenon
  <2>1. /\ 1..2 \in SUBSET (1..len) /\ 1..2 # {}
        /\ Max(1..2) = 2 /\ (1..2) \ {2} = 1..1
    <3>1. 2 - 1 = 1 /\ 2 \in Nat \ {0}
      OBVIOUS
    <3>2. Max(1..2) = 2 /\ (1..2) \ {2} = 1..(2 - 1) /\ 1..2 # {}
      BY <3>1, MaxOfInterval, Zenon
    <3>. QED
      BY <3>1, <3>2
  <2>2. iter[1..2] = Session(h)!SendMessage(More(box), SomeMessage)
    BY <1>8, <1>10, <2>1
  <2>3. More(box) \in Outbox /\ WritesFront(More(box))
    BY MoreQueues
  <2>4. iter[1..2] = More(More(box))
    BY <2>2, <2>3, SendMessageIs
  <2>. QED
    BY <2>4
<1>12. len = 1 => r = More(box)
  BY <1>2, <1>10
<1>. QED
  BY <1>9, <1>11, <1>12, Zenon DEF r

-----------------------------------------------------------------------------
(* What a call of the manager does to the sessions.                        *)

IsSeated(k) == \E id \in MatchID : k \in Seated(id)

Joined == DOMAIN handlerMatch

LEMMA CreateMoves ==
    ASSUME Seating, NEW h \in Handler, h \notin Joined, Create(h)
    PROVE  /\ Open' = Open /\ Joined' = Joined
           /\ \A k : IsSeated(k)' <=> IsSeated(k)
<1>1. /\ sessions[h] = "none" /\ sessions' = [sessions EXCEPT ![h] = "accepting"]
      /\ handlerMatch' = handlerMatch /\ matchHandlers' = matchHandlers
  BY DEF Create
<1>2. Open' = Open
  BY <1>1 DEF Seating, MapsOK, Open
<1>. QED
  BY <1>1, <1>2 DEF Joined, IsSeated, Seated

LEMMA JoinMoves ==
    ASSUME Seating, NEW h \in Handler, Join(h)
    PROVE  /\ h \notin Joined /\ Joined' = Joined \cup {h}
           /\ h \notin Open /\ Open' = Open \cup {h}
           /\ \A k : IsSeated(k)' <=> IsSeated(k)
<1>1. /\ sessions[h] = "accepting" /\ h \notin DOMAIN handlerMatch
      /\ sessions' = [sessions EXCEPT ![h] = "open"]
      /\ handlerMatch' = SetHandlerMatch(h, NotPlaying)
      /\ matchHandlers' = matchHandlers
  BY DEF Join, Seating, MapsOK
<1>2. Open' = Open \cup {h} /\ h \notin Open
  BY <1>1 DEF Seating, MapsOK, Open
<1>3. DOMAIN handlerMatch' = DOMAIN handlerMatch \cup {h}
  BY <1>1 DEF SetHandlerMatch
<1>. QED
  BY <1>1, <1>2, <1>3 DEF Joined, IsSeated, Seated

LEMMA LeaveMoves ==
    ASSUME Seating, NEW h \in Handler, Leave(h)
    PROVE  /\ Joined' = Joined /\ Open' = Open \ {h}
           /\ ~IsSeated(h)'
           /\ \A k \in Handler \ {h} : IsSeated(k)' <=> IsSeated(k)
<1>1. /\ sessions[h] # "none" /\ sessions' = [sessions EXCEPT ![h] = "none"]
      /\ handlerMatch' = handlerMatch
      /\ \/ matchHandlers' = matchHandlers
         \/ \E id : matchHandlers' = matchHandlers \ {<< id, h >>}
  BY DEF Leave, Erase
<1>2. Open' = Open \ {h}
  BY <1>1 DEF Seating, MapsOK, Open
<1>3. \A k \in Handler \ {h}, id \in MatchID : k \in Seated(id)' <=> k \in Seated(id)
  BY <1>1 DEF Seated
<1>4. \A id \in MatchID : h \notin Seated(id)'
  <2>1. Seating'
    BY LeaveSeats
  <2>2. \A id \in MatchID : h \in Seated(id)' => h \in Open'
    BY <2>1 DEF Seating, SeatingOK
  <2>. QED
    BY <1>2, <2>2
<1>. QED
  BY <1>1, <1>2, <1>3, <1>4 DEF Joined, IsSeated

(* What the call in onRead() does: at most two messages to a session, and  *)
(* to others than the one that is read from only if they are in a match.   *)
Answers(h) ==
    /\ h \in Open /\ Open' = Open /\ Joined' = Joined
    /\ \A k \in Handler : Len(sentMessages'[k]) \in {0, 1, 2}
    /\ \A k \in Handler \ {h} :
          /\ IsSeated(k)' <=> IsSeated(k)
          /\ Len(sentMessages'[k]) # 0 => IsSeated(k)
    /\ IsSeated(h) => IsSeated(h)'
    /\ Len(sentMessages'[h]) = 0 => (IsSeated(h)' <=> IsSeated(h))
    /\ Len(sentMessages'[h]) = 2 => ~IsSeated(h) /\ IsSeated(h)'

(* Nobody sits down or leaves, and some are sent a message.                *)
LEMMA AnswersOnce ==
    ASSUME NEW h \in Open, NEW message, NEW receivers,
           UNCHANGED << sessions, handlerMatch, matchHandlers >>,
           SendsNothing \/ SendsTo(receivers, message),
           \A k \in receivers : k = h \/ IsSeated(k)
    PROVE  Answers(h)
<1>1. Open' = Open /\ Joined' = Joined /\ \A k : IsSeated(k)' <=> IsSeated(k)
  BY DEF Open, Joined, IsSeated, Seated
<1>2. Len(<< message >>) = 1 /\ Len(<<>>) = 0
  OBVIOUS
<1>3. \A k \in Handler : /\ Len(sentMessages'[k]) \in {0, 1}
                         /\ Len(sentMessages'[k]) # 0 => k \in receivers
  BY <1>2 DEF SendsNothing, SendsTo
<1>. QED
  BY <1>1, <1>3 DEF Answers, Open

LEMMA JoinMatchAnswers ==
    ASSUME Seating, NEW h \in Handler, NEW at \in MatchID, NEW n \in Name,
           JoinMatch(h, at, n)
    PROVE  Answers(h)
<1>. DEFINE joined == AddPlayer(MatchOf(at), n)
            Welcome(k) == IF k = h THEN << MatchInfo(joined) >>
                          ELSE IF k \in Seated(at) THEN << JoinMatchResult(n) >>
                          ELSE <<>>
<1>1. /\ h \in Open /\ Plays(h, "none") /\ sessions' = sessions
      /\ matchHandlers' = matchHandlers \cup {<< at, h >>}
      /\ handlerMatch' = SetHandlerMatch(h, [matchID |-> at, nickname |-> n])
  BY DEF JoinMatch
<1>2. Open' = Open /\ Joined' = Joined
  BY <1>1 DEF Open, Joined, Plays, SetHandlerMatch
<1>3. ~IsSeated(h) /\ IsSeated(h)'
  BY <1>1, NoSeat DEF IsSeated, Seated
<1>4. \A k \in Handler \ {h} : IsSeated(k)' <=> IsSeated(k)
  <2>1. \A k \in Handler \ {h}, id \in MatchID : k \in Seated(id)' <=> k \in Seated(id)
    BY <1>1 DEF Seated
  <2>. QED
    BY <2>1 DEF IsSeated
<1>5. ASSUME NEW k \in Handler
      PROVE  /\ Len(sentMessages'[k]) \in {0, 1, 2}
             /\ Len(sentMessages'[k]) # 0 => k = h \/ k \in Seated(at)
             /\ k = h => Len(sentMessages'[k]) # 0
  <2>1. CASE sentMessages' = [i \in Handler |-> Welcome(i)]
    <3>. HIDE DEF joined
    <3>. QED
      BY <2>1
  <2>2. ASSUME NEW m,
               sentMessages' = [i \in Handler |-> Welcome(i) \o
                 IF i = h \/ i \in Seated(at) THEN << m.updateEvent >> ELSE <<>>]
        PROVE  /\ Len(sentMessages'[k]) \in {0, 1, 2}
               /\ Len(sentMessages'[k]) # 0 => k = h \/ k \in Seated(at)
               /\ k = h => Len(sentMessages'[k]) # 0
    <3>. HIDE DEF joined
    <3>. QED
      BY <2>2
  <2>. QED
    BY <2>1, <2>2 DEF JoinMatch
<1>6. \A k \in Handler :
        /\ Len(sentMessages'[k]) \in {0, 1, 2}
        /\ Len(sentMessages'[k]) # 0 => k = h \/ k \in Seated(at)
  BY <1>5
<1>7. h \in Handler /\ Len(sentMessages'[h]) # 0
  BY <1>5
<1>8. \A k : k \in Seated(at) => IsSeated(k)
  BY DEF IsSeated
<1>9. \A k \in Handler \ {h} : Len(sentMessages'[k]) # 0 => IsSeated(k)
  BY <1>6, <1>8
<1>. QED
  BY <1>1, <1>2, <1>3, <1>4, <1>6, <1>7, <1>9, Zenon DEF Answers

LEMMA DispatchAnswers ==
    ASSUME Seating, NEW h \in Handler, NEW event \in InputEvent,
           DispatchMessage(h, event)
    PROVE  Answers(h)
<1>1. CASE event.type = "Error"
  <2>1. ReceiveInvalid(h)
    BY <1>1 DEF DispatchMessage
  <2>. QED
    BY <2>1, AnswersOnce DEF ReceiveInvalid
<1>2. CASE event.type = "JoinMatchRequest"
  <2>1. event.matchID \in MatchID /\ event.nickname \in Name
    BY <1>2 DEF InputEvent
  <2>2. CASE JoinMatchRefused(h, event.matchID, event.nickname)
    BY <2>2, AnswersOnce DEF JoinMatchRefused
  <2>3. CASE JoinMatch(h, event.matchID, event.nickname)
    BY <2>1, <2>3, JoinMatchAnswers
  <2>. QED
    BY <1>2, <2>2, <2>3 DEF DispatchMessage
<1>3. CASE event.type \in {"Attack", "Offer", "Pass"}
  <2>1. Play(h, event)
    BY <1>3 DEF DispatchMessage
  <2>2. PICK at, m : at \in MatchID /\ h \in Seated(at) /\ Respond(h, at, m)
    BY <1>3, <2>1, PlayHandles
  <2>3. h \in Open
    BY <2>1 DEF Play
  <2>4. \A k \in Seated(at) : IsSeated(k)
    BY <2>2 DEF IsSeated
  <2>. QED
    BY <2>2, <2>3, <2>4, AnswersOnce DEF Respond
<1>. QED
  BY <1>1, <1>2, <1>3 DEF InputEvent

-----------------------------------------------------------------------------
(* The sessions of a running server.                                       *)

(* A session is open exactly as long as an operation of it is in progress, *)
(* and nothing is queued for one that never was.                           *)
SessionOK(k) ==
    /\ reading[k] \in BOOLEAN /\ written[k] \in Nat
    /\ out[k] \in Outbox /\ WritesFront(out[k])
    /\ k \in Open <=> reading[k] \/ out[k].writing # <<>>
    /\ k \notin Joined => out[k] = NothingToWrite /\ written[k] = 0

Running ==
    /\ Seating
    /\ DOMAIN reading = Handler /\ DOMAIN out = Handler /\ DOMAIN written = Handler
    /\ \A k \in Handler : SessionOK(k)

IInv == stopped \in BOOLEAN /\ (~stopped => Running)

LEMMA MessagesOf ==
    ASSUME NEW n \in Nat
    PROVE  /\ Len(Messages(n)) = n
           /\ Append(Messages(n), SomeMessage) = Messages(n + 1)
           /\ Messages(n) \o << SomeMessage, SomeMessage >> = Messages(n + 2)
<1>. DEFINE s == Messages(n)
            one == Append(s, SomeMessage)
            two == s \o << SomeMessage, SomeMessage >>
<1>1. s \in Seq({SomeMessage}) /\ Len(s) = n /\ \A i \in 1..n : s[i] = SomeMessage
  BY DEF Messages
<1>. HIDE DEF s
<1>2. /\ one \in Seq({SomeMessage}) /\ Len(one) = n + 1
      /\ \A i \in 1..(n + 1) : one[i] = SomeMessage
  BY <1>1
<1>3. /\ two \in Seq({SomeMessage}) /\ Len(two) = n + 2
      /\ \A i \in 1..(n + 2) : two[i] = SomeMessage
  BY <1>1
<1>. HIDE DEF one, two
<1>4. one = [i \in 1..(n + 1) |-> SomeMessage]
  BY <1>2
<1>5. two = [i \in 1..(n + 2) |-> SomeMessage]
  BY <1>3
<1>. QED
  BY <1>1, <1>4, <1>5 DEF s, one, two, Messages

LEMMA SentIs ==
    ASSUME NEW k, SessionOK(k)
    PROVE  Sent(k) \in Nat /\ Len(out[k].queue) \in Nat
BY DEF SessionOK, Outbox, Sent

LEMMA InitServerRuns == InitServer => IInv /\ \A k \in Handler : Session(k)!Init
<1>. SUFFICES ASSUME InitServer PROVE IInv /\ \A k \in Handler : Session(k)!Init
  OBVIOUS
<1>1. /\ Seating /\ Open = {} /\ Joined = {} /\ \A k : ~IsSeated(k)
      /\ stopped = FALSE
      /\ reading = [h \in Handler |-> FALSE]
      /\ out = [h \in Handler |-> NothingToWrite]
      /\ written = [h \in Handler |-> 0]
  BY InitSeating DEF InitServer, Init, Open, Joined, IsSeated, Seated
<1>2. /\ NothingToWrite \in Outbox /\ WritesFront(NothingToWrite)
      /\ NothingToWrite.writing = <<>> /\ NothingToWrite.queue = <<>>
  BY DEF NothingToWrite, Outbox, WritesFront
<1>3. IInv
  BY <1>1, <1>2 DEF IInv, Running, SessionOK
<1>4. ASSUME NEW k \in Handler PROVE Session(k)!Init
  <2>1. Messages(0) = <<>>
    BY DEF Messages
  <2>2. /\ out[k] = [queue |-> <<>>, writing |-> <<>>] /\ written[k] = 0
        /\ reading[k] = FALSE
    BY <1>1 DEF NothingToWrite
  <2>3. Sent(k) = 0 /\ ~Broken(k)
    BY <2>2 DEF Sent, Broken
  <2>4. k \notin Open /\ k \notin DOMAIN handlerMatch
    BY <1>1 DEF Joined
  <2>5. ~ \E id \in MatchID : k \in Seated(id)
    BY <1>1 DEF IsSeated
  <2>. QED
    BY <2>1, <2>2, <2>3, <2>4, <2>5 DEF Session!Init
<1>. QED
  BY <1>3, <1>4

(* A session nothing happens to.                                           *)
LEMMA SessionStays ==
    ASSUME NEW k, SessionOK(k),
           (k \in Open)' <=> k \in Open, (k \in Joined)' <=> k \in Joined,
           IsSeated(k)' <=> IsSeated(k), reading'[k] = reading[k],
           out'[k] = out[k], written'[k] = written[k]
    PROVE  SessionOK(k)' /\ UNCHANGED Session(k)!vars
<1>1. SessionOK(k)'
  BY DEF SessionOK
<1>2. Sent(k)' = Sent(k) /\ Broken(k)' = Broken(k)
  BY DEF Sent, Broken
<1>. QED
  BY <1>1, <1>2 DEF Session!vars, IsSeated, Joined, Messages

(* A session that is sent one message, or two.                             *)
LEMMA QueuesOne ==
    ASSUME NEW k, SessionOK(k), written'[k] = written[k],
           out'[k] = More(out[k]), Sent(k) + 1 <= MaxMessages
    PROVE  /\ out[k]' \in Outbox /\ WritesFront(out[k]')
           /\ (out[k].writing # <<>> => out[k]'.writing # <<>>)
           /\ out[k]'.queue # <<>>
           /\ Session(k)!SendOne
           /\ Messages(written[k])' = Messages(written[k])
           /\ Broken(k)' = Broken(k)
<1>1. /\ out[k] \in Outbox /\ WritesFront(out[k])
      /\ written[k] \in Nat /\ Sent(k) \in Nat /\ Len(out[k].queue) \in Nat
      /\ MaxMessages \in Nat
  BY SentIs, MessagesAssumption DEF SessionOK
<1>2. /\ More(out[k]) \in Outbox /\ WritesFront(More(out[k]))
      /\ Len(More(out[k]).queue) = Len(out[k].queue) + 1
      /\ More(out[k]).queue # <<>>
      /\ out[k].writing # <<>> => More(out[k]).writing # <<>>
      /\ (More(out[k]).writing = <<>>) <=> (out[k].writing = <<>> /\ out[k].queue # <<>>)
  BY <1>1, MoreQueues
<1>3. Sent(k)' = Sent(k) + 1
  BY <1>1, <1>2 DEF Sent
<1>4. Len(Messages(Sent(k))) < MaxMessages
  <2>1. Len(Messages(Sent(k))) = Sent(k)
    BY <1>1, MessagesOf, Zenon
  <2>. QED
    BY <1>1, <2>1
<1>5. Messages(Sent(k))' = Append(Messages(Sent(k)), SomeMessage)
  <2>1. Messages(Sent(k))' = Messages(Sent(k)')
    BY DEF Messages
  <2>. QED
    BY <1>1, <1>3, <2>1, MessagesOf
<1>6. out[k]' = Session(k)!SendMessage(out[k], SomeMessage)
  BY <1>1, SendMessageIs
<1>7. Session(k)!SendOne
  BY <1>4, <1>5, <1>6 DEF Session!SendOne
<1>8. Messages(written[k])' = Messages(written[k])
  BY DEF Messages
<1>9. Broken(k)' = Broken(k)
  BY <1>2 DEF Broken
<1>. QED
  BY <1>2, <1>7, <1>8, <1>9

LEMMA QueuesTwo ==
    ASSUME NEW k, SessionOK(k), written'[k] = written[k],
           out'[k] = More(More(out[k])), Sent(k) + 2 <= MaxMessages
    PROVE  /\ out[k]' \in Outbox /\ WritesFront(out[k]')
           /\ (out[k].writing # <<>> => out[k]'.writing # <<>>)
           /\ out[k]'.queue # <<>>
           /\ Session(k)!SendTwo
           /\ Messages(written[k])' = Messages(written[k])
           /\ Broken(k)' = Broken(k)
<1>1. /\ out[k] \in Outbox /\ WritesFront(out[k])
      /\ written[k] \in Nat /\ Sent(k) \in Nat /\ Len(out[k].queue) \in Nat
      /\ MaxMessages \in Nat
  BY SentIs, MessagesAssumption DEF SessionOK
<1>. DEFINE o == More(out[k])
<1>2. /\ o \in Outbox /\ WritesFront(o)
      /\ Len(o.queue) = Len(out[k].queue) + 1 /\ o.queue # <<>>
      /\ out[k].writing # <<>> => o.writing # <<>>
      /\ (o.writing = <<>>) <=> (out[k].writing = <<>> /\ out[k].queue # <<>>)
  BY <1>1, MoreQueues
<1>3. o = Session(k)!SendMessage(out[k], SomeMessage)
  BY <1>1, SendMessageIs
<1>. HIDE DEF o
<1>4. /\ More(o) \in Outbox /\ WritesFront(More(o))
      /\ Len(More(o).queue) = Len(o.queue) + 1 /\ More(o).queue # <<>>
      /\ o.writing # <<>> => More(o).writing # <<>>
      /\ (More(o).writing = <<>>) <=> (o.writing = <<>> /\ o.queue # <<>>)
  BY <1>2, MoreQueues
<1>5. out[k]' = More(o)
  BY DEF o
<1>6. Sent(k)' = Sent(k) + 2
  BY <1>1, <1>2, <1>4, <1>5 DEF Sent
<1>7. Len(Messages(Sent(k))) + 2 <= MaxMessages
  <2>1. Len(Messages(Sent(k))) = Sent(k)
    BY <1>1, MessagesOf, Zenon
  <2>. QED
    BY <1>1, <2>1
<1>8. Messages(Sent(k))' = Messages(Sent(k)) \o << SomeMessage, SomeMessage >>
  <2>1. Messages(Sent(k))' = Messages(Sent(k)')
    BY DEF Messages
  <2>. QED
    BY <1>1, <1>6, <2>1, MessagesOf
<1>9. out[k]' = Session(k)!SendMessage(Session(k)!SendMessage(out[k], SomeMessage),
                                        SomeMessage)
  <2>1. More(o) = Session(k)!SendMessage(o, SomeMessage)
    BY <1>2, SendMessageIs
  <2>. QED
    BY <1>3, <1>5, <2>1
<1>10. Session(k)!SendTwo
  BY <1>7, <1>8, <1>9 DEF Session!SendTwo
<1>11. Messages(written[k])' = Messages(written[k])
  BY DEF Messages
<1>12. Broken(k)' = Broken(k)
  BY <1>2, <1>4, <1>5 DEF Broken
<1>. QED
  BY <1>2, <1>4, <1>5, <1>10, <1>11, <1>12

-----------------------------------------------------------------------------
(* Every handler, as every session sees it.                                *)

Behaves(k) == [Session(k)!Next]_(Session(k)!vars)

LEMMA ReadBehaves ==
    ASSUME Running, NEW h \in Handler, OnRead(h)
    PROVE  Running' /\ \A k \in Handler : Behaves(k)
<1>1. PICK event \in InputEvent : DispatchMessage(h, event)
  BY DEF OnRead
<1>2. /\ reading[h] /\ SendMessages /\ reading' = reading /\ written' = written
  BY DEF OnRead
<1>3. Seating' /\ Answers(h) /\ SentOK'
  BY <1>1, DispatchSeats, DispatchAnswers, CallsSend DEF Running, Calls
<1>4. DOMAIN reading' = Handler /\ DOMAIN out' = Handler /\ DOMAIN written' = Handler
  BY <1>2 DEF Running, SendMessages
<1>5. ASSUME NEW k \in Handler PROVE SessionOK(k)' /\ Behaves(k)
  <2>. DEFINE len == Len(sentMessages'[k])
  <2>1. /\ SessionOK(k) /\ out[k] \in Outbox /\ WritesFront(out[k])
        /\ len \in {0, 1, 2}
    BY <1>3 DEF Running, SessionOK, Answers
  <2>2. /\ reading'[k] = reading[k] /\ written'[k] = written[k]
        /\ Open' = Open /\ Joined' = Joined /\ h \in Open
        /\ Sent(k) + len <= MaxMessages
    BY <1>2, <1>3 DEF SendMessages, Answers
  <2>3. /\ k # h => (IsSeated(k)' <=> IsSeated(k))
        /\ k # h => (len # 0 => IsSeated(k))
        /\ k = h => (IsSeated(k) => IsSeated(k)')
        /\ k = h => (len = 0 => (IsSeated(k)' <=> IsSeated(k)))
        /\ k = h => (len = 2 => ~IsSeated(k) /\ IsSeated(k)')
    <3>1. CASE k = h
      <4>1. /\ IsSeated(h) => IsSeated(h)'
            /\ Len(sentMessages'[h]) = 0 => (IsSeated(h)' <=> IsSeated(h))
            /\ Len(sentMessages'[h]) = 2 => ~IsSeated(h) /\ IsSeated(h)'
        BY <1>3, Zenon DEF Answers
      <4>. QED
        BY <3>1, <4>1, Zenon
    <3>2. CASE k # h
      <4>1. /\ IsSeated(k)' <=> IsSeated(k)
            /\ Len(sentMessages'[k]) # 0 => IsSeated(k)
        BY <1>3, <3>2, Zenon DEF Answers
      <4>. QED
        BY <3>2, <4>1, Zenon
    <3>. QED
      BY <3>1, <3>2, Zenon
  <2>4. IsSeated(k) => k \in Open
    BY DEF Running, Seating, SeatingOK, IsSeated
  <2>5. /\ len = 0 => out'[k] = out[k]
        /\ len = 1 => out'[k] = More(out[k])
        /\ len = 2 => out'[k] = More(More(out[k]))
    <3>. DEFINE S == OutputEvent \ {<<>>}
                s == sentMessages'[k]
    <3>1. s \in Seq(S)
      BY <1>3 DEF SentOK
    <3>2. out'[k] = Queues(k, out[k], s)
      BY <1>2 DEF SendMessages, Queues
    <3>. HIDE DEF s, S
    <3>3. LET r == Queues(k, out[k], s)
          IN  /\ Len(s) = 0 => r = out[k]
              /\ Len(s) = 1 => r = More(out[k])
              /\ Len(s) = 2 => r = More(More(out[k]))
      BY <2>1, <3>1, QueuedOneByOne, Zenon
    <3>. QED
      BY <3>2, <3>3, Zenon DEF s
  <2>. HIDE DEF len
  <2>6. CASE len = 0
    <3>1. /\ out'[k] = out[k]
          /\ IsSeated(k)' <=> IsSeated(k)
          /\ (k \in Open)' <=> k \in Open
          /\ (k \in Joined)' <=> k \in Joined
      BY <2>2, <2>3, <2>5, <2>6, Zenon
    <3>2. SessionOK(k)' /\ UNCHANGED Session(k)!vars
      BY <2>1, <2>2, <3>1, SessionStays, Zenon
    <3>. QED
      BY <3>2 DEF Behaves
  <2>7. CASE len \in {1, 2}
    <3>1. k \in Open /\ k \in Joined
      BY <1>3, <2>2, <2>3, <2>4, <2>7 DEF Running, Seating, MapsOK, Joined, Open
    <3>2. /\ out[k]' \in Outbox /\ WritesFront(out[k]')
          /\ (out[k].writing # <<>> => out[k]'.writing # <<>>)
          /\ IF len = 1 THEN Session(k)!SendOne ELSE Session(k)!SendTwo
          /\ Messages(written[k])' = Messages(written[k])
          /\ Broken(k)' = Broken(k)
      BY <2>1, <2>2, <2>5, <2>7, QueuesOne, QueuesTwo
    <3>3. SessionOK(k)'
      BY <2>1, <2>2, <3>1, <3>2 DEF SessionOK
    <3>4. /\ (k \notin Open /\ k \notin DOMAIN handlerMatch)'
                = (k \notin Open /\ k \notin DOMAIN handlerMatch)
          /\ (k \in Open)' = (k \in Open) /\ reading[k]' = reading[k]
      BY <2>2 DEF Joined
    <3>5. CASE k = h
      <4>1. reading[k] /\ IsSeated(k)' \in {IsSeated(k), TRUE}
            /\ (len = 2 => ~IsSeated(k) /\ IsSeated(k)' = TRUE)
        <5>1. \/ IsSeated(k)' = TRUE
              \/ IsSeated(k)' = IsSeated(k)
          BY <2>3, <3>5, Zenon DEF IsSeated
        <5>2. len = 2 => ~IsSeated(k) /\ IsSeated(k)' = TRUE
          BY <2>3, <3>5, Zenon DEF IsSeated
        <5>. QED
          BY <1>2, <3>5, <5>1, <5>2, Zenon
      <4>2. UNCHANGED << k \notin Open /\ k \notin DOMAIN handlerMatch, reading[k],
                         k \in Open, Messages(written[k]), Broken(k) >>
        BY <3>2, <3>4, Zenon
      <4>3. \/ Session(k)!SendOne /\ IsSeated(k)' \in {IsSeated(k), TRUE}
            \/ Session(k)!SendTwo /\ ~IsSeated(k) /\ IsSeated(k)' = TRUE
        <5>1. len = 1 \/ len = 2
          BY <2>7
        <5>2. len = 2 => len # 1
          OBVIOUS
        <5>. QED
          BY <3>2, <4>1, <5>1, <5>2, Zenon
      <4>4. Session(k)!OnRead
        BY <4>1, <4>2, <4>3, Zenon DEF Session!OnRead, IsSeated
      <4>. QED
        BY <3>3, <4>4, Zenon DEF Behaves, Session!Next
    <3>6. CASE k # h
      <4>1. IsSeated(k) /\ IsSeated(k)' = IsSeated(k)
        <5>1. len # 0
          BY <2>7
        <5>. QED
          BY <2>3, <3>6, <5>1, Zenon DEF IsSeated
      <4>2. Session(k)!SendOne \/ Session(k)!SendTwo
        BY <3>2, Zenon
      <4>3. UNCHANGED << k \notin Open /\ k \notin DOMAIN handlerMatch, reading[k],
                         k \in Open, IsSeated(k), Messages(written[k]), Broken(k) >>
        BY <3>2, <3>4, <4>1, Zenon
      <4>4. Session(k)!OnBroadcast
        BY <4>1, <4>2, <4>3, Zenon DEF Session!OnBroadcast, IsSeated
      <4>. QED
        BY <3>3, <4>4, Zenon DEF Behaves, Session!Next
    <3>. QED
      BY <3>5, <3>6
  <2>. QED
    BY <2>1, <2>6, <2>7
<1>. QED
  BY <1>3, <1>4, <1>5 DEF Running

(* The handlers that end without a call, or with a session that leaves.    *)
LEMMA NoCallMoves ==
    ASSUME Seating, NoCall
    PROVE  Seating' /\ Open' = Open /\ Joined' = Joined
           /\ \A k : IsSeated(k)' <=> IsSeated(k)
BY UnchangedSeats DEF NoCall, Open, Joined, IsSeated, Seated

LEMMA DestroyMoves ==
    ASSUME Seating, NEW h \in Handler, DestroyIfIdle(h), h \in Open
    PROVE  LET alive == reading'[h] \/ out'[h].writing # <<>>
           IN  /\ Seating' /\ Joined' = Joined /\ h \in Joined
               /\ \A k \in Handler \ {h} : (k \in Open' <=> k \in Open)
                                            /\ (IsSeated(k)' <=> IsSeated(k))
               /\ h \in Open' <=> alive
               /\ IsSeated(h)' <=> (IsSeated(h) /\ alive)
<1>. DEFINE alive == reading'[h] \/ out'[h].writing # <<>>
<1>1. h \in Joined
  BY DEF Seating, MapsOK, Open, Joined
<1>2. CASE alive
  <2>1. NoCall
    BY <1>2 DEF DestroyIfIdle
  <2>. QED
    BY <1>1, <1>2, <2>1, NoCallMoves
<1>3. CASE ~alive
  <2>1. Leave(h)
    BY <1>3 DEF DestroyIfIdle
  <2>. QED
    BY <1>1, <1>3, <2>1, LeaveMoves, LeaveSeats
<1>. QED
  BY <1>2, <1>3

(* The others, when something happens to one session.                      *)
OthersSame(h) ==
    \A k \in Handler \ {h} :
        /\ (k \in Open' <=> k \in Open) /\ (k \in Joined' <=> k \in Joined)
        /\ (IsSeated(k)' <=> IsSeated(k))
        /\ reading'[k] = reading[k] /\ out'[k] = out[k]
        /\ written'[k] = written[k]

LEMMA OtherSessions ==
    ASSUME Running, NEW h \in Handler, OthersSame(h)
    PROVE  \A k \in Handler \ {h} : SessionOK(k)' /\ Behaves(k)
<1>. SUFFICES ASSUME NEW k \in Handler \ {h} PROVE SessionOK(k)' /\ Behaves(k)
  OBVIOUS
<1>1. SessionOK(k)
  BY DEF Running
<1>2. /\ (k \in Open' <=> k \in Open) /\ (k \in Joined' <=> k \in Joined)
      /\ (IsSeated(k)' <=> IsSeated(k))
      /\ reading'[k] = reading[k] /\ out'[k] = out[k]
      /\ written'[k] = written[k]
  BY DEF OthersSame
<1>3. SessionOK(k)' /\ UNCHANGED Session(k)!vars
  BY <1>1, <1>2, SessionStays
<1>. QED
  BY <1>3 DEF Behaves

LEMMA ConnectionBehaves ==
    ASSUME Running, NEW h \in Handler, OnConnection(h)
    PROVE  Running' /\ \A k \in Handler : Behaves(k)
<1>1. /\ h \notin Joined /\ Create(h)
      /\ UNCHANGED << reading, out, written >>
  BY DEF OnConnection, Joined
<1>2. /\ Seating' /\ Open' = Open /\ Joined' = Joined
      /\ \A k : IsSeated(k)' <=> IsSeated(k)
  BY <1>1, CreateSeats, CreateMoves DEF Running, Joined
<1>3. \A k \in Handler : SessionOK(k)' /\ Behaves(k)
  <2>. TAKE k \in Handler
  <2>1. SessionOK(k)' /\ UNCHANGED Session(k)!vars
    BY <1>1, <1>2, SessionStays DEF Running
  <2>. QED
    BY <2>1 DEF Behaves
<1>. QED
  BY <1>1, <1>2, <1>3 DEF Running

LEMMA AcceptErrorBehaves ==
    ASSUME Running, OnAcceptError
    PROVE  Running' /\ \A k \in Handler : Behaves(k)
<1>1. NoCall /\ UNCHANGED << reading, out, written >>
  BY DEF OnAcceptError
<1>2. /\ Seating' /\ Open' = Open /\ Joined' = Joined
      /\ \A k : IsSeated(k)' <=> IsSeated(k)
  BY <1>1, NoCallMoves DEF Running
<1>3. \A k \in Handler : SessionOK(k)' /\ Behaves(k)
  <2>. TAKE k \in Handler
  <2>1. SessionOK(k)' /\ UNCHANGED Session(k)!vars
    BY <1>1, <1>2, SessionStays DEF Running
  <2>. QED
    BY <2>1 DEF Behaves
<1>. QED
  BY <1>1, <1>2, <1>3 DEF Running

LEMMA AcceptBehaves ==
    ASSUME Running, NEW h \in Handler, OnAccept(h)
    PROVE  Running' /\ \A k \in Handler : Behaves(k)
<1>1. sessions[h] = "accepting" /\ UNCHANGED << out, written >>
  BY DEF OnAccept
<1>2. h \notin Joined /\ h \notin Open /\ SessionOK(h) /\ ~IsSeated(h)
  BY <1>1 DEF Running, Seating, MapsOK, SeatingOK, Open, Joined, IsSeated
<1>3. CASE Join(h) /\ reading' = [reading EXCEPT ![h] = TRUE]
  <2>1. /\ Seating' /\ Joined' = Joined \cup {h} /\ Open' = Open \cup {h}
        /\ \A k : IsSeated(k)' <=> IsSeated(k)
    BY <1>3, JoinSeats, JoinMoves DEF Running
  <2>2. /\ DOMAIN reading' = Handler /\ reading'[h] = TRUE
        /\ \A k \in Handler \ {h} : reading'[k] = reading[k]
    BY <1>3 DEF Running
  <2>3. \A k \in Handler \ {h} : SessionOK(k)' /\ Behaves(k)
    <3>1. OthersSame(h)
      BY <1>1, <2>1, <2>2 DEF OthersSame
    <3>. QED
      BY <3>1, OtherSessions, Zenon
  <2>4. SessionOK(h)'
    BY <1>1, <1>2, <2>1, <2>2 DEF SessionOK
  <2>5. Session(h)!OnAccept
    <3>1. /\ (h \notin Open /\ h \notin DOMAIN handlerMatch) = TRUE
          /\ (h \notin Open /\ h \notin DOMAIN handlerMatch)' = FALSE
      BY <1>2, <2>1 DEF Joined
    <3>2. (h \in Open)' = TRUE /\ reading[h]' = TRUE
      BY <2>1, <2>2
    <3>3. UNCHANGED << out[h], IsSeated(h), Messages(Sent(h)), Messages(written[h]),
                       Broken(h) >>
      <4>1. IsSeated(h)' = IsSeated(h)
        BY <2>1, Zenon DEF IsSeated
      <4>. QED
        BY <1>1, <4>1 DEF Sent, Messages, Broken
    <3>. QED
      BY <3>1, <3>2, <3>3, Zenon DEF Session!OnAccept, IsSeated
  <2>6. Behaves(h)
    BY <2>5, Zenon DEF Behaves, Session!Next
  <2>. QED
    BY <1>1, <2>1, <2>2, <2>3, <2>4, <2>6 DEF Running
<1>4. CASE Leave(h) /\ UNCHANGED reading
  <2>1. /\ Seating' /\ Joined' = Joined /\ Open' = Open
        /\ \A k \in Handler : IsSeated(k)' <=> IsSeated(k)
    BY <1>2, <1>4, LeaveSeats, LeaveMoves DEF Running
  <2>2. \A k \in Handler : SessionOK(k)' /\ Behaves(k)
    <3>. TAKE k \in Handler
    <3>1. SessionOK(k)' /\ UNCHANGED Session(k)!vars
      BY <1>1, <1>4, <2>1, SessionStays DEF Running
    <3>. QED
      BY <3>1 DEF Behaves
  <2>. QED
    BY <1>1, <1>4, <2>1, <2>2 DEF Running
<1>. QED
  BY <1>3, <1>4 DEF OnAccept

(* What the end of a read or of a write leaves of its session.             *)
LEMMA EndBehaves ==
    ASSUME Running, NEW h \in Handler, DestroyIfIdle(h), h \in Open
    PROVE  /\ Session(h)!DestroyIfIdle
           /\ UNCHANGED (h \notin Open /\ h \notin DOMAIN handlerMatch)
<1>. DEFINE acc   == h \notin Open /\ h \notin DOMAIN handlerMatch
            alive == reading'[h] \/ out'[h].writing # <<>>
<1>1. /\ h \in Joined' /\ h \in Joined
      /\ h \in Open' <=> alive
      /\ IsSeated(h)' <=> (IsSeated(h) /\ alive)
  BY DestroyMoves DEF Running
<1>2. acc' = FALSE /\ acc = FALSE
  BY <1>1 DEF Joined
<1>3. (h \in Open)' = (h \in Open /\ alive)
  BY <1>1
<1>4. IsSeated(h)' = (IsSeated(h) /\ alive)
  BY <1>1, Zenon DEF IsSeated
<1>. HIDE DEF acc
<1>5. (acc' \/ reading[h]' \/ out[h]'.writing # <<>>) = alive
  BY <1>2
<1>6. /\ (h \in Open)' = (h \in Open /\ (acc' \/ reading[h]' \/ out[h]'.writing # <<>>))
      /\ IsSeated(h)' = (IsSeated(h) /\ (acc' \/ reading[h]' \/ out[h]'.writing # <<>>))
  BY <1>3, <1>4, <1>5, Zenon
<1>7. Session(h)!DestroyIfIdle
  BY <1>6, Zenon DEF Session!DestroyIfIdle, IsSeated, acc
<1>. QED
  BY <1>2, <1>7 DEF acc

LEMMA ReadErrorBehaves ==
    ASSUME Running, NEW h \in Handler, OnReadError(h)
    PROVE  Running' /\ \A k \in Handler : Behaves(k)
<1>1. /\ reading[h] /\ reading' = [reading EXCEPT ![h] = FALSE]
      /\ out' = out /\ written' = written /\ DestroyIfIdle(h)
  BY DEF OnReadError
<1>2. /\ DOMAIN reading' = Handler /\ reading'[h] = FALSE
      /\ \A k \in Handler \ {h} : reading'[k] = reading[k]
      /\ SessionOK(h) /\ h \in Open
  BY <1>1 DEF Running, SessionOK
<1>3. /\ Seating' /\ Joined' = Joined /\ h \in Joined
      /\ \A k \in Handler \ {h} : (k \in Open' <=> k \in Open)
                                   /\ (IsSeated(k)' <=> IsSeated(k))
      /\ h \in Open' <=> out'[h].writing # <<>>
  BY <1>1, <1>2, DestroyMoves DEF Running
<1>4. \A k \in Handler \ {h} : SessionOK(k)' /\ Behaves(k)
  <2>1. OthersSame(h)
    BY <1>1, <1>2, <1>3 DEF OthersSame
  <2>. QED
    BY <2>1, OtherSessions, Zenon
<1>5. SessionOK(h)'
  BY <1>1, <1>2, <1>3 DEF SessionOK
<1>6. Session(h)!OnReadError
  <2>1. /\ Session(h)!DestroyIfIdle
        /\ UNCHANGED (h \notin Open /\ h \notin DOMAIN handlerMatch)
    BY <1>1, <1>2, EndBehaves
  <2>2. reading[h]' = FALSE
    BY <1>2
  <2>3. UNCHANGED << out[h], Messages(Sent(h)), Messages(written[h]), Broken(h) >>
    BY <1>1 DEF Messages, Sent, Broken
  <2>. QED
    BY <1>1, <2>1, <2>2, <2>3, Zenon DEF Session!OnReadError
<1>7. Behaves(h)
  BY <1>6, Zenon DEF Behaves, Session!Next
<1>. QED
  BY <1>1, <1>2, <1>3, <1>4, <1>5, <1>7 DEF Running

LEMMA WriteBehaves ==
    ASSUME Running, NEW h \in Handler, OnWrite(h)
    PROVE  Running' /\ \A k \in Handler : Behaves(k)
<1>. PICK o, r : o = out[h] /\ r = Session(h)!Written(out[h])
  OBVIOUS
<1>1. /\ o.writing # <<>> /\ out' = [out EXCEPT ![h] = r]
      /\ written' = [written EXCEPT ![h] = written[h] + 1]
      /\ reading' = reading /\ DestroyIfIdle(h)
  BY DEF OnWrite
<1>2. /\ DOMAIN out' = Handler /\ DOMAIN written' = Handler
      /\ out'[h] = r /\ written'[h] = written[h] + 1
      /\ \A k \in Handler \ {h} : out'[k] = out[k] /\ written'[k] = written[k]
      /\ SessionOK(h) /\ h \in Open
      /\ o \in Outbox /\ WritesFront(o) /\ written[h] \in Nat
      /\ Sent(h) \in Nat /\ Len(o.queue) \in Nat
  BY <1>1, SentIs DEF Running, SessionOK
<1>3. /\ Seating' /\ Joined' = Joined /\ h \in Joined
      /\ \A k \in Handler \ {h} : (k \in Open' <=> k \in Open)
                                   /\ (IsSeated(k)' <=> IsSeated(k))
      /\ h \in Open' <=> (reading'[h] \/ out'[h].writing # <<>>)
  BY <1>1, <1>2, DestroyMoves DEF Running
<1>4. \A k \in Handler \ {h} : SessionOK(k)' /\ Behaves(k)
  <2>1. OthersSame(h)
    BY <1>1, <1>2, <1>3 DEF OthersSame
  <2>. QED
    BY <2>1, OtherSessions, Zenon
<1>5. /\ r \in Outbox /\ WritesFront(r)
      /\ Len(r.queue) + 1 = Len(o.queue) /\ Len(r.queue) \in Nat
      /\ (r.writing = <<>>) <=> (r.queue = <<>>)
      /\ Head(o.writing) = SomeMessage
  <2>1. /\ r \in Outbox /\ WritesFront(r)
        /\ r.queue = Tail(o.queue) /\ Len(r.queue) + 1 = Len(o.queue)
        /\ r.writing = <<>> <=> r.queue = <<>>
        /\ Head(o.writing) = SomeMessage
    BY <1>1, <1>2, WrittenIs
  <2>2. r.queue \in Seq({SomeMessage})
    BY <2>1 DEF Outbox
  <2>. QED
    BY <2>1, <2>2
<1>6. SessionOK(h)'
  BY <1>1, <1>2, <1>3, <1>5 DEF SessionOK
<1>7. Session(h)!OnWrite
  <2>1. /\ Session(h)!DestroyIfIdle
        /\ UNCHANGED (h \notin Open /\ h \notin DOMAIN handlerMatch)
    BY <1>1, <1>2, EndBehaves
  <2>2. Sent(h)' = Sent(h)
    <3>1. out'[h].queue = r.queue /\ out[h].queue = o.queue
      BY <1>2
    <3>2. \A w \in Nat, i \in Nat, j \in Nat : i + 1 = j => (w + 1) + i = w + j
      OBVIOUS
    <3>3. (written[h] + 1) + Len(r.queue) = written[h] + Len(o.queue)
      BY <1>2, <1>5, <3>2
    <3>. QED
      BY <1>2, <3>1, <3>3 DEF Sent
  <2>3. Messages(Sent(h))' = Messages(Sent(h))
    BY <2>2 DEF Messages
  <2>4. Messages(written[h])' = Append(Messages(written[h]), Head(o.writing))
    <3>1. Messages(written[h])' = Messages(written[h] + 1)
      BY <1>2 DEF Messages
    <3>. QED
      BY <1>2, <1>5, <3>1, MessagesOf
  <2>5. Broken(h)' = Broken(h)
    BY <1>1, <1>2, <1>5 DEF Broken
  <2>6. reading[h]' = reading[h] /\ out[h]' = Session(h)!Written(out[h])
    BY <1>1, <1>2
  <2>7. out[h].writing # <<>>
        /\ Messages(written[h])' = Append(Messages(written[h]), Head(out[h].writing))
    BY <1>1, <2>4
  <2>. QED
    BY <2>1, <2>3, <2>5, <2>6, <2>7, Zenon DEF Session!OnWrite
<1>8. Behaves(h)
  BY <1>7, Zenon DEF Behaves, Session!Next
<1>. QED
  BY <1>1, <1>2, <1>3, <1>4, <1>6, <1>8 DEF Running

LEMMA WriteErrorBehaves ==
    ASSUME Running, NEW h \in Handler, OnWriteError(h)
    PROVE  Running' /\ \A k \in Handler : Behaves(k)
<1>. PICK o, r : o = out[h] /\ r = [out[h] EXCEPT !.writing = Tail(@)]
  OBVIOUS
<1>1. /\ o.writing # <<>> /\ out' = [out EXCEPT ![h] = r]
      /\ written' = written /\ reading' = reading /\ DestroyIfIdle(h)
  BY DEF OnWriteError
<1>2. /\ DOMAIN out' = Handler /\ out'[h] = r
      /\ \A k \in Handler \ {h} : out'[k] = out[k]
      /\ SessionOK(h) /\ h \in Open /\ o \in Outbox /\ WritesFront(o)
  BY <1>1 DEF Running, SessionOK
<1>3. /\ Seating' /\ Joined' = Joined /\ h \in Joined
      /\ \A k \in Handler \ {h} : (k \in Open' <=> k \in Open)
                                   /\ (IsSeated(k)' <=> IsSeated(k))
      /\ h \in Open' <=> (reading'[h] \/ out'[h].writing # <<>>)
  BY <1>1, <1>2, DestroyMoves DEF Running
<1>4. \A k \in Handler \ {h} : SessionOK(k)' /\ Behaves(k)
  <2>1. OthersSame(h)
    BY <1>1, <1>2, <1>3 DEF OthersSame
  <2>. QED
    BY <2>1, OtherSessions, Zenon
<1>5. /\ r \in Outbox /\ WritesFront(r)
      /\ r.queue = o.queue /\ r.writing = <<>> /\ o.queue # <<>>
  <2>1. o.writing = << Head(o.queue) >> /\ o.queue # <<>>
    BY <1>1, <1>2 DEF WritesFront
  <2>2. Tail(o.writing) = <<>>
    BY <2>1
  <2>3. r = [queue |-> o.queue, writing |-> <<>>]
    BY <1>2, <2>2 DEF Outbox
  <2>4. r.queue = o.queue /\ r.writing = <<>> /\ <<>> \in Seq({SomeMessage})
    BY <2>3
  <2>5. o.queue \in Seq({SomeMessage})
    BY <1>2 DEF Outbox
  <2>6. r \in Outbox
    BY <2>3, <2>4, <2>5, Zenon DEF Outbox
  <2>. QED
    BY <2>1, <2>4, <2>6 DEF WritesFront
<1>6. SessionOK(h)'
  BY <1>1, <1>2, <1>3, <1>5 DEF SessionOK
<1>7. Session(h)!OnWriteError
  <2>1. /\ Session(h)!DestroyIfIdle
        /\ UNCHANGED (h \notin Open /\ h \notin DOMAIN handlerMatch)
    BY <1>1, <1>2, EndBehaves
  <2>2. UNCHANGED << Messages(Sent(h)), Messages(written[h]) >>
    BY <1>1, <1>2, <1>5 DEF Messages, Sent
  <2>3. Broken(h)' = TRUE
    BY <1>2, <1>5 DEF Broken
  <2>4. reading[h]' = reading[h] /\ out[h].writing # <<>>
        /\ out[h]' = [out[h] EXCEPT !.writing = Tail(@)]
    BY <1>1, <1>2
  <2>. QED
    BY <2>1, <2>2, <2>3, <2>4, Zenon DEF Session!OnWriteError
<1>8. Behaves(h)
  BY <1>7, Zenon DEF Behaves, Session!Next
<1>. QED
  BY <1>1, <1>2, <1>3, <1>4, <1>6, <1>8 DEF Running

-----------------------------------------------------------------------------
(* The specification.                                                      *)

LEMMA HandlersBehave ==
    ASSUME Running, OnAcceptError \/ \E h \in Handler : Handlers(h)
    PROVE  Running' /\ \A k \in Handler : Behaves(k)
<1>1. ASSUME NEW h \in Handler, Handlers(h)
      PROVE  Running' /\ \A k \in Handler : Behaves(k)
  <2>1. CASE OnConnection(h)
    BY <2>1, ConnectionBehaves
  <2>2. CASE OnAccept(h)
    BY <2>2, AcceptBehaves
  <2>3. CASE OnRead(h)
    BY <2>3, ReadBehaves
  <2>4. CASE OnReadError(h)
    BY <2>4, ReadErrorBehaves
  <2>5. CASE OnWrite(h)
    BY <2>5, WriteBehaves
  <2>6. CASE OnWriteError(h)
    BY <2>6, WriteErrorBehaves
  <2>. QED
    BY <1>1, <2>1, <2>2, <2>3, <2>4, <2>5, <2>6 DEF Handlers
<1>. QED
  BY <1>1, AcceptErrorBehaves

LEMMA StutterBehaves ==
    ASSUME Running, UNCHANGED serverVars
    PROVE  Running' /\ \A k \in Handler : Behaves(k)
<1>1. /\ UNCHANGED << sessions, matches, handlerMatch, matchHandlers >>
      /\ UNCHANGED << reading, out, written >>
  BY DEF serverVars, vars
<1>2. /\ Seating' /\ Open' = Open /\ Joined' = Joined
      /\ \A k : IsSeated(k)' <=> IsSeated(k)
  BY <1>1, UnchangedSeats DEF Running, Open, Joined, IsSeated, Seated
<1>3. \A k \in Handler : SessionOK(k)' /\ Behaves(k)
  <2>. TAKE k \in Handler
  <2>1. SessionOK(k)' /\ UNCHANGED Session(k)!vars
    BY <1>1, <1>2, SessionStays DEF Running
  <2>. QED
    BY <2>1 DEF Behaves
<1>. QED
  BY <1>1, <1>2, <1>3 DEF Running

LEMMA StepBehaves ==
    ASSUME IInv, [NextServer]_serverVars
    PROVE  IInv' /\ (~stopped' => \A k \in Handler : Behaves(k))
<1>1. CASE ~stopped /\ UNCHANGED stopped
             /\ (OnAcceptError \/ \E h \in Handler : Handlers(h))
  BY <1>1, HandlersBehave DEF IInv
<1>2. CASE OnSignal
  BY <1>2 DEF OnSignal, IInv
<1>3. CASE stopped /\ UNCHANGED stopped
  BY <1>3 DEF IInv
<1>4. CASE UNCHANGED serverVars
  <2>1. stopped' = stopped
    BY <1>4 DEF serverVars
  <2>. QED
    BY <1>4, <2>1, StutterBehaves DEF IInv
<1>. QED
  BY <1>1, <1>2, <1>3, <1>4 DEF NextServer

LEMMA ServerInvariant == ServerSpec => []IInv
<1>1. InitServer => IInv
  BY InitServerRuns
<1>2. IInv /\ [NextServer]_serverVars => IInv'
  BY StepBehaves
<1>. QED
  BY <1>1, <1>2, PTL DEF ServerSpec

(* The manager never broadcasts through a pointer to a session that was    *)
(* destroyed: each that has a seat is open, with a read or a write that    *)
(* keeps it alive.                                                         *)
THEOREM PointersStayValid == ServerSpec => []PointersValid
<1>1. IInv => PointersValid
  BY DEF IInv, Running, SessionOK, Seating, SeatingOK, Seated, PointersValid
<1>. QED
  BY <1>1, ServerInvariant, PTL

(* The server implements the specification of a session, for each client,  *)
(* with the messages the manager sends to it in the handlers of others.    *)
THEOREM SessionsBehave == ServerSpec => SessionsAsSpecified
<1>. DEFINE Inits == \A h \in Handler : Session(h)!Init
            Behaviour == ~stopped' => \A h \in Handler :
                                [Session(h)!Next]_(Session(h)!vars)
<1>1. InitServer => Inits
  BY InitServerRuns
<1>2. IInv /\ [NextServer]_serverVars => [Behaviour]_serverVars
  BY StepBehaves DEF Behaves
<1>3. ServerSpec => Inits /\ [][Behaviour]_serverVars
  BY <1>1, <1>2, ServerInvariant, PTL DEF ServerSpec
<1>. QED
  BY <1>3 DEF SessionsAsSpecified

=============================================================================
