---------------------- MODULE WebsocketSession_proofs ----------------------
(***************************************************************************)
(* Proofs about WebsocketSession, for any messages and any number of them: *)
(* one write at a time, of the front of the queue, and messages delivered  *)
(* in order.                                                               *)
(***************************************************************************)
EXTENDS WebsocketSession, SequenceTheorems, TLAPS

(* Nothing is lost, repeated or reordered: what was delivered, followed by *)
(* what waits, is what was sent.                                           *)
NothingLost == delivered \o out.queue = sent

(* The message whose write failed stays at the front, where it keeps those *)
(* behind it from being written.                                           *)
Blocked == failed => out.queue # <<>> /\ out.writing = <<>>

IInv == TypeOK /\ OneWriteOfTheFront /\ NothingLost /\ Blocked

-----------------------------------------------------------------------------
(* A queue and its write, and what sendMessage() and onWrite() do to them. *)
Outbox == [queue : Seq(Message), writing : Seq(Message)]

WritesFront(o) ==
    o.writing # <<>> => o.queue # <<>> /\ o.writing = << Head(o.queue) >>

LEMMA DoWriteStarts ==
    ASSUME NEW q, NEW w
    PROVE  DoWrite([queue |-> q, writing |-> w])
              = [queue |-> q, writing |-> Append(w, Head(q))]
<1>. DEFINE o == [queue |-> q, writing |-> w]
<1>1. o.queue = q /\ o.writing = w
  OBVIOUS
<1>2. DoWrite(o) = [o EXCEPT !.writing = Append(w, Head(q))]
  BY <1>1, Zenon DEF DoWrite
<1>. QED
  BY <1>2

(* The concatenations of histories and queues.                             *)
LEMMA TwoMore ==
    ASSUME NEW s \in Seq(Message), NEW q \in Seq(Message),
           NEW t \in Seq(Message)
    PROVE  s \o (q \o t) = (s \o q) \o t /\ (s \o q) \o t \in Seq(Message)
<1>1. s \o q \in Seq(Message)
  BY ConcatProperties
<1>2. (s \o q) \o t \in Seq(Message)
  BY <1>1, ConcatProperties
<1>3. (s \o q) \o t = s \o (q \o t)
  BY ConcatAssociative, SMTT(30)
<1>. QED
  BY <1>2, <1>3

LEMMA OneMore ==
    ASSUME NEW s \in Seq(Message), NEW q \in Seq(Message),
           NEW m \in Message
    PROVE  s \o Append(q, m) = Append(s \o q, m)
<1>1. Append(q, m) = q \o << m >> /\ << m >> \in Seq(Message)
  BY AppendIsConcat
<1>2. s \o q \in Seq(Message)
  BY ConcatProperties
<1>3. Append(s \o q, m) = (s \o q) \o << m >>
  BY <1>2, AppendIsConcat
<1>. QED
  BY <1>1, <1>3, TwoMore

(* The longer of two histories continues the other one.                    *)
Continues(s, t) == Len(s) < Len(t) /\ SubSeq(t, 1, Len(s)) = s

LEMMA LongerContinues ==
    ASSUME NEW s \in Seq(Message), NEW t \in Seq(Message), t # <<>>
    PROVE  Continues(s, s \o t)
<1>. DEFINE r == s \o t
<1>1. /\ r \in Seq(Message) /\ Len(r) = Len(s) + Len(t)
      /\ \A i \in 1..Len(s) : r[i] = s[i]
  BY ConcatProperties
<1>2. Len(s) \in Nat /\ Len(t) \in Nat /\ Len(t) # 0
  OBVIOUS
<1>. HIDE DEF r
<1>3. SubSeq(r, 1, Len(s)) = s
  BY <1>1, <1>2
<1>4. Len(s) < Len(r)
  BY <1>1, <1>2
<1>. QED
  BY <1>3, <1>4 DEF Continues, r

(* What waits begins where what was delivered ends.                        *)
LEMMA FrontIsNext ==
    ASSUME NEW s \in Seq(Message), NEW q \in Seq(Message), q # <<>>
    PROVE  /\ Len(s) < Len(s \o q)
           /\ (s \o q)[Len(s) + 1] = Head(q)
BY ConcatProperties

LEMMA FrontMoves ==
    ASSUME NEW s \in Seq(Message), NEW q \in Seq(Message), q # <<>>
    PROVE  /\ Head(q) \in Message
           /\ Append(s, Head(q)) \in Seq(Message)
           /\ Append(s, Head(q)) \o Tail(q) = s \o q
<1>. DEFINE t == << Head(q) >>
<1>1. Head(q) \in Message /\ Tail(q) \in Seq(Message) /\ t \in Seq(Message)
      /\ t \o Tail(q) = q
  OBVIOUS
<1>2. Append(s, Head(q)) \in Seq(Message) /\ Append(s, Head(q)) = s \o t
  BY <1>1, AppendProperties, AppendIsConcat
<1>. HIDE DEF t
<1>3. (s \o t) \o Tail(q) = s \o (t \o Tail(q))
  BY <1>1, TwoMore, Zenon
<1>. QED
  BY <1>1, <1>2, <1>3

LEMMA SendMessageQueues ==
    ASSUME NEW o \in Outbox, WritesFront(o), NEW m \in Message
    PROVE  /\ SendMessage(o, m) \in Outbox
           /\ WritesFront(SendMessage(o, m))
           /\ SendMessage(o, m).queue = Append(o.queue, m)
           /\ o.queue # <<>> => SendMessage(o, m).writing = o.writing
<1>. DEFINE q == Append(o.queue, m)
            r == SendMessage(o, m)
<1>1. o.queue \in Seq(Message) /\ o.writing \in Seq(Message)
  BY DEF Outbox
<1>2. /\ q \in Seq(Message) /\ q # <<>> /\ Len(q) = Len(o.queue) + 1
      /\ Head(q) \in Message
      /\ o.queue # <<>> => Head(q) = Head(o.queue)
  BY <1>1
<1>3. r = IF Len(q) > 1 THEN [queue |-> q, writing |-> o.writing]
          ELSE [queue |-> q, writing |-> Append(o.writing, Head(q))]
  <2>1. [o EXCEPT !.queue = q] = [queue |-> q, writing |-> o.writing]
    <3>. HIDE DEF q
    <3>. QED
      BY DEF Outbox
  <2>. DEFINE p == [queue |-> q, writing |-> o.writing]
  <2>2. r = IF Len(p.queue) > 1 THEN p ELSE DoWrite(p)
    BY <2>1, Zenon DEF SendMessage
  <2>3. DoWrite(p) = [queue |-> q, writing |-> Append(o.writing, Head(q))]
    BY DoWriteStarts, Zenon
  <2>. QED
    BY <2>2, <2>3
<1>. HIDE DEF q, r
<1>4. CASE Len(q) > 1
  <2>1. r = [queue |-> q, writing |-> o.writing]
    BY <1>3, <1>4
  <2>. QED
    BY <1>1, <1>2, <2>1 DEF Outbox, WritesFront, r, q
<1>5. CASE ~(Len(q) > 1)
  <2>1. o.queue = <<>> /\ o.writing = <<>>
    BY <1>1, <1>2, <1>5 DEF WritesFront
  <2>2. r = [queue |-> q, writing |-> << Head(q) >>]
    BY <1>3, <1>5, <2>1
  <2>. QED
    BY <1>2, <2>1, <2>2 DEF Outbox, WritesFront, r, q
<1>. QED
  BY <1>4, <1>5

LEMMA WrittenErasesFront ==
    ASSUME NEW o \in Outbox, WritesFront(o), o.writing # <<>>
    PROVE  /\ Written(o) \in Outbox
           /\ WritesFront(Written(o))
           /\ Written(o).queue = Tail(o.queue)
           /\ Head(o.writing) = Head(o.queue) /\ o.queue # <<>>
<1>. DEFINE q == Tail(o.queue)
            r == Written(o)
<1>1. /\ o.queue \in Seq(Message) /\ o.queue # <<>>
      /\ o.writing = << Head(o.queue) >>
  BY DEF Outbox, WritesFront
<1>2. q \in Seq(Message) /\ Tail(o.writing) = <<>>
  BY <1>1
<1>3. r = IF q = <<>> THEN [queue |-> q, writing |-> <<>>]
          ELSE [queue |-> q, writing |-> Append(<<>>, Head(q))]
  <2>. DEFINE p == [queue |-> q, writing |-> <<>>]
  <2>1. r = IF p.queue = <<>> THEN p ELSE DoWrite(p)
    BY <1>2, Zenon DEF Written
  <2>2. DoWrite(p) = [queue |-> q, writing |-> Append(<<>>, Head(q))]
    BY DoWriteStarts, Zenon
  <2>. QED
    BY <2>1, <2>2
<1>. HIDE DEF q, r
<1>4. CASE q = <<>>
  <2>1. r = [queue |-> q, writing |-> <<>>]
    BY <1>3, <1>4
  <2>. QED
    BY <1>1, <1>2, <2>1 DEF Outbox, WritesFront, r, q
<1>5. CASE q # <<>>
  <2>1. r = [queue |-> q, writing |-> << Head(q) >>] /\ Head(q) \in Message
    BY <1>2, <1>3, <1>5
  <2>. QED
    BY <1>1, <1>2, <1>5, <2>1 DEF Outbox, WritesFront, r, q
<1>. QED
  BY <1>4, <1>5

-----------------------------------------------------------------------------
(* Reads, broadcasts and writes, in any order, keep IInv.                  *)
LEMMA Invariance == Spec => []IInv
<1>1. Init => IInv
  <2>. SUFFICES ASSUME Init PROVE IInv
    OBVIOUS
  <2>1. TypeOK
    <3>1. <<>> \in Seq(Message)
      OBVIOUS
    <3>. QED
      BY <3>1, Zenon DEF Init, TypeOK
  <2>2. <<>> \o <<>> = <<>>
    BY EmptySeq, ConcatEmptySeq
  <2>. QED
    BY <2>1, <2>2 DEF Init, IInv, NothingLost, OneWriteOfTheFront, Blocked
<1>2. IInv /\ [Next]_vars => IInv'
  <2>. SUFFICES ASSUME IInv, [Next]_vars PROVE IInv'
    OBVIOUS
  <2>0. /\ out \in Outbox /\ WritesFront(out)
        /\ sent \in Seq(Message) /\ delivered \in Seq(Message)
        /\ out.queue \in Seq(Message)
    BY DEF IInv, TypeOK, OneWriteOfTheFront, Outbox, WritesFront
  <2>1. CASE OnAccept
    BY <2>1 DEF OnAccept, IInv, TypeOK, OneWriteOfTheFront, NothingLost, Blocked
  <2>2. ASSUME SendOne, delivered' = delivered, failed' = failed
        PROVE  /\ out' \in Outbox /\ WritesFront(out')
               /\ sent' \in Seq(Message) /\ NothingLost' /\ Blocked'
    <3>1. PICK m \in Message :
            out' = SendMessage(out, m) /\ sent' = Append(sent, m)
      BY <2>2 DEF SendOne
    <3>2. /\ out' \in Outbox /\ WritesFront(out')
          /\ out'.queue = Append(out.queue, m)
          /\ out.queue # <<>> => out'.writing = out.writing
      BY <2>0, <3>1, SendMessageQueues
    <3>3. delivered \o Append(out.queue, m)
            = Append(delivered \o out.queue, m)
      BY <2>0, OneMore
    <3>4. Append(out.queue, m) # <<>>
      BY <2>0
    <3>. QED
      BY <2>0, <2>2, <3>1, <3>2, <3>3, <3>4 DEF IInv, NothingLost, Blocked
  <2>3. ASSUME SendTwo, delivered' = delivered, failed' = failed
        PROVE  /\ out' \in Outbox /\ WritesFront(out')
               /\ sent' \in Seq(Message) /\ NothingLost' /\ Blocked'
    <3>1. PICK m \in Message, n \in Message :
            /\ out' = SendMessage(SendMessage(out, m), n)
            /\ sent' = sent \o << m, n >>
      BY <2>3 DEF SendTwo
    <3>2. /\ out' \in Outbox /\ WritesFront(out')
          /\ out'.queue = Append(Append(out.queue, m), n)
          /\ out.queue # <<>> => out'.writing = out.writing
      <4>1. /\ SendMessage(out, m) \in Outbox
            /\ WritesFront(SendMessage(out, m))
            /\ SendMessage(out, m).queue = Append(out.queue, m)
            /\ out.queue # <<>> => SendMessage(out, m).writing = out.writing
        BY <2>0, SendMessageQueues
      <4>2. Append(out.queue, m) # <<>>
        BY <2>0
      <4>. QED
        BY <3>1, <4>1, <4>2, SendMessageQueues
    <3>3. << m, n >> \in Seq(Message)
          /\ Append(Append(out.queue, m), n) = out.queue \o << m, n >>
      BY <2>0
    <3>. DEFINE t == << m, n >>
    <3>4. Append(Append(out.queue, m), n) # <<>>
      <4>1. Append(out.queue, m) \in Seq(Message)
        BY <2>0
      <4>. HIDE DEF t
      <4>. QED
        BY <4>1, AppendProperties
    <3>. HIDE DEF t
    <3>5. delivered \o (out.queue \o t) = (delivered \o out.queue) \o t
          /\ (delivered \o out.queue) \o t \in Seq(Message)
      BY <2>0, <3>3, TwoMore DEF t
    <3>. QED
      BY <2>3, <3>1, <3>2, <3>3, <3>4, <3>5 DEF IInv, NothingLost, Blocked, t
  <2>4. CASE OnReadError
    BY <2>4 DEF OnReadError, DestroyIfIdle, IInv, TypeOK, OneWriteOfTheFront,
                NothingLost, Blocked
  <2>5. CASE OnRead \/ OnBroadcast
    <3>1. /\ SendOne \/ SendTwo
          /\ delivered' = delivered /\ failed' = failed
          /\ accepting' = accepting /\ reading' = reading /\ joined' = joined
          /\ seated' \in {seated, TRUE}
      BY <2>5 DEF OnRead, OnBroadcast
    <3>2. /\ out' \in Outbox /\ WritesFront(out')
          /\ sent' \in Seq(Message) /\ NothingLost' /\ Blocked'
      BY <2>2, <2>3, <3>1
    <3>. QED
      BY <3>1, <3>2 DEF IInv, TypeOK, OneWriteOfTheFront, Outbox, WritesFront
  <2>6. CASE OnWrite
    <3>1. out.writing # <<>>
      BY <2>6 DEF OnWrite
    <3>2. /\ out' = Written(out)
          /\ delivered' = Append(delivered, Head(out.queue))
          /\ sent' = sent /\ out.queue # <<>>
      BY <2>0, <2>6, <3>1, WrittenErasesFront DEF OnWrite
    <3>3. out' \in Outbox /\ WritesFront(out') /\ out'.queue = Tail(out.queue)
      BY <2>0, <3>1, <3>2, WrittenErasesFront
    <3>4. /\ Append(delivered, Head(out.queue)) \in Seq(Message)
          /\ Append(delivered, Head(out.queue)) \o Tail(out.queue)
                = delivered \o out.queue
      BY <2>0, <3>2, FrontMoves
    <3>5. NothingLost' /\ delivered' \in Seq(Message)
      BY <3>2, <3>3, <3>4 DEF IInv, NothingLost
    <3>6. joined' \in BOOLEAN /\ seated' \in BOOLEAN
      BY <2>6 DEF OnWrite, DestroyIfIdle, IInv, TypeOK
    <3>7. ~failed /\ failed' = failed
      BY <2>6, <3>1 DEF OnWrite, IInv, Blocked
    <3>. QED
      BY <2>0, <2>6, <3>3, <3>5, <3>6, <3>7
         DEF OnWrite, IInv, TypeOK, OneWriteOfTheFront, Outbox, WritesFront,
             Blocked
  <2>7. CASE OnWriteError
    <3>1. /\ out.writing = << Head(out.queue) >>
          /\ out' = [queue |-> out.queue, writing |-> Tail(out.writing)]
      BY <2>0, <2>7 DEF OnWriteError, WritesFront, Outbox
    <3>2. Tail(out.writing) = <<>>
      BY <3>1
    <3>3. out' = [queue |-> out.queue, writing |-> <<>>]
      BY <3>1, <3>2
    <3>4. joined' \in BOOLEAN /\ seated' \in BOOLEAN
      BY <2>7 DEF OnWriteError, DestroyIfIdle, IInv, TypeOK
    <3>5. /\ accepting' = accepting /\ reading' = reading /\ failed' = TRUE
          /\ sent' = sent /\ delivered' = delivered
      BY <2>7 DEF OnWriteError
    <3>6. /\ out' \in Outbox
          /\ out'.queue = out.queue /\ out'.writing = <<>>
      BY <2>0, <3>3 DEF Outbox
    <3>7. TypeOK'
      BY <2>0, <3>4, <3>5, <3>6 DEF IInv, TypeOK, Outbox
    <3>8. OneWriteOfTheFront' /\ NothingLost' /\ Blocked'
      BY <2>0, <2>7, <3>5, <3>6
         DEF OnWriteError, IInv, OneWriteOfTheFront, NothingLost, Blocked,
             WritesFront
    <3>. QED
      BY <3>7, <3>8 DEF IInv
  <2>8. CASE UNCHANGED vars
    BY <2>8 DEF vars, IInv, TypeOK, OneWriteOfTheFront, NothingLost, Blocked
  <2>. QED
    BY <2>1, <2>4, <2>5, <2>6, <2>7, <2>8 DEF Next
<1>. QED
  BY <1>1, <1>2, PTL DEF Spec

(* What the session holds has its types, whatever handlers run.            *)
THEOREM SessionTypeCorrect == Spec => []TypeOK
BY Invariance, PTL DEF IInv

(* There is never more than one async_write in progress, and the message   *)
(* it borrows is held by the front of the queue until the write ends.      *)
THEOREM OneWriteAtATime == Spec => []OneWriteOfTheFront
BY Invariance, PTL DEF IInv

(* After a failed write nothing more is written, whatever is read, sent or *)
(* broadcast afterwards: the queue never becomes empty again, so no        *)
(* sendMessage() starts a write.                                           *)
THEOREM FailureIsFinal == Spec => NothingAfterFailure
<1>1. IInv /\ [Next]_vars => (failed => delivered' = delivered)
  BY DEF IInv, Blocked, Next, OnAccept, OnRead, OnReadError, OnBroadcast,
         OnWrite, OnWriteError, vars
<1>. QED
  BY <1>1, Invariance, PTL DEF Spec, NothingAfterFailure

(* The session implements the channel of MessageChannel: whatever the      *)
(* interleaving, messages are written in the order they were sent, once.   *)
THEOREM DeliveredInOrder == Spec => InOrder
<1>1. Init => Channel!Init
  BY DEF Init, Channel!Init
<1>2. IInv /\ [Next]_vars => [Channel!Next]_<< sent, delivered >>
  <2>. SUFFICES ASSUME IInv, [Next]_vars
                PROVE  [Channel!Next]_<< sent, delivered >>
    OBVIOUS
  <2>0. /\ out \in Outbox /\ WritesFront(out) /\ out.queue \in Seq(Message)
        /\ sent \in Seq(Message) /\ delivered \in Seq(Message)
        /\ sent = delivered \o out.queue
    BY DEF IInv, TypeOK, OneWriteOfTheFront, Outbox, WritesFront, NothingLost
  <2>1. CASE OnRead \/ OnBroadcast
    <3>1. delivered' = delivered
      BY <2>1 DEF OnRead, OnBroadcast
    <3>2. ASSUME NEW m \in Message, sent' = Append(sent, m)
          PROVE  Continues(sent, sent')
      <4>1. sent' = sent \o << m >> /\ << m >> \in Seq(Message) /\ << m >> # <<>>
        BY <2>0, <3>2, AppendIsConcat
      <4>. QED
        BY <2>0, <4>1, LongerContinues
    <3>3. ASSUME NEW m \in Message, NEW n \in Message,
                 sent' = sent \o << m, n >>
          PROVE  Continues(sent, sent')
      <4>1. << m, n >> \in Seq(Message) /\ << m, n >> # <<>>
        OBVIOUS
      <4>. QED
        BY <2>0, <3>3, <4>1, LongerContinues
    <3>4. Continues(sent, sent')
      BY <2>1, <3>2, <3>3 DEF OnRead, OnBroadcast, SendOne, SendTwo
    <3>. QED
      BY <3>1, <3>4
         DEF Channel!Next, Channel!Send, Continues
  <2>2. CASE OnWrite
    <3>1. out.writing # <<>>
      BY <2>2 DEF OnWrite
    <3>2. Head(out.writing) = Head(out.queue) /\ out.queue # <<>>
      BY <2>0, <3>1, WrittenErasesFront
    <3>3. /\ Len(delivered) < Len(sent)
          /\ sent[Len(delivered) + 1] = Head(out.writing)
      BY <2>0, <3>2, FrontIsNext
    <3>4. /\ delivered' = Append(delivered, sent[Len(delivered) + 1])
          /\ sent' = sent
      BY <2>2, <3>3 DEF OnWrite
    <3>. QED
      BY <3>3, <3>4 DEF Channel!Next, Channel!Deliver
  <2>3. CASE OnAccept \/ OnReadError \/ OnWriteError \/ UNCHANGED vars
    BY <2>3 DEF OnAccept, OnReadError, OnWriteError, vars
  <2>. QED
    BY <2>1, <2>2, <2>3 DEF Next
<1>. QED
  BY <1>1, <1>2, Invariance, PTL DEF Spec, InOrder, Channel!Spec
=============================================================================
