-------------------------- MODULE WebsocketSession --------------------------
(***************************************************************************)
(* One WebsocketSession (src/IO/WebsocketSession.cpp): the chain of reads, *)
(* the queue of messages and the chain of writes of one client.  Every     *)
(* operation in progress holds a shared_ptr to the session, which is       *)
(* destroyed by the end of the last handler that starts no other.          *)
(*                                                                         *)
(* The io_context runs one handler at a time.  async_accept, async_read    *)
(* and async_write (Boost.Beast) are operations that end, well or with an  *)
(* error, in the handler of that name.                                     *)
(***************************************************************************)
EXTENDS Sequences, Naturals

CONSTANTS Message,     \* the messages sent to this client
          MaxMessages  \* how many of them are looked at

ASSUME MaxAssumption == MaxMessages \in Nat

VARIABLES
    accepting,  \* an async_accept is in progress
    reading,    \* an async_read is in progress
    out,        \* the queue, and the messages async_write is writing
    joined,     \* the manager knows the session
    seated,     \* the session is in a match, whose updates it is sent
    sent,       \* history: every message given to sendMessage()
    delivered,  \* history: every message written
    failed      \* history: a write ended with an error

vars == << accepting, reading, out, joined, seated, sent, delivered, failed >>

(* Mutant: the whole queue is given to one write.                          *)
DoWriteAll(o) == [o EXCEPT !.writing = Append(@, o.queue)]

DoWrite(o) == [o EXCEPT !.writing = Append(@, Head(o.queue))]

(* Mutant: a write starts although one is in progress.                     *)
SendMessageAtOnce(o, m) == DoWrite([o EXCEPT !.queue = Append(@, m)])

SendMessage(o, m) ==
    LET queued == [o EXCEPT !.queue = Append(@, m)]
    IN  IF Len(queued.queue) > 1 THEN queued ELSE DoWrite(queued)

(* Mutant: the next message is not written.                                *)
WrittenAndIdle(o) == [queue |-> Tail(o.queue), writing |-> Tail(o.writing)]

(* Mutant: the message written is not erased from the queue.               *)
WrittenAgain(o) == DoWrite([o EXCEPT !.writing = Tail(@)])

(* onWrite() without error.                                                *)
Written(o) ==
    LET rest == [queue |-> Tail(o.queue), writing |-> Tail(o.writing)]
    IN  IF rest.queue = <<>> THEN rest ELSE DoWrite(rest)

(* run(): the session is created to accept the handshake.                  *)
Init ==
    /\ accepting = TRUE /\ reading = FALSE
    /\ out = [queue |-> <<>>, writing |-> <<>>]
    /\ joined = FALSE /\ seated = FALSE
    /\ sent = <<>> /\ delivered = <<>> /\ failed = FALSE

-----------------------------------------------------------------------------
(* Mutant: messages that wait keep the session alive.                      *)
DestroyIfEmpty ==
    LET alive == accepting' \/ reading' \/ out'.queue # <<>>
    IN  /\ joined' = (joined /\ alive)
        /\ seated' = (seated /\ alive)

(* What the end of a handler leaves: without an operation in progress the  *)
(* session is destroyed, and the destructor leaves the manager.            *)
DestroyIfIdle ==
    LET alive == accepting' \/ reading' \/ out'.writing # <<>>
    IN  /\ joined' = (joined /\ alive)
        /\ seated' = (seated /\ alive)

OnAccept ==
    /\ accepting /\ accepting' = FALSE
    /\ \/ reading' = TRUE /\ joined' = TRUE       \* accepted
       \/ UNCHANGED << reading, joined >>         \* failed: destroyed
    /\ UNCHANGED << out, seated, sent, delivered, failed >>

SendOne ==
    /\ Len(sent) < MaxMessages
    /\ \E m \in Message : /\ out' = SendMessage(out, m)
                          /\ sent' = Append(sent, m)

SendTwo ==
    /\ Len(sent) + 2 <= MaxMessages
    /\ \E m, n \in Message : /\ out' = SendMessage(SendMessage(out, m), n)
                             /\ sent' = sent \o << m, n >>

(* dispatchMessage() answers with nothing, with an Error or an update, or  *)
(* with the MatchInfo and, if the match is full now, with its start.       *)
OnRead ==
    /\ reading
    /\ \/ SendOne /\ seated' \in {seated, TRUE}
       \/ SendTwo /\ ~seated /\ seated' = TRUE
    /\ UNCHANGED << accepting, reading, joined, delivered, failed >>

OnReadError ==
    /\ reading /\ reading' = FALSE
    /\ UNCHANGED << accepting, out, sent, delivered, failed >>
    /\ DestroyIfIdle

(* Broadcast in the handler of another session: an update of the match, a  *)
(* JoinMatchResult or, if the match is full now, that and its start.       *)
OnBroadcast ==
    /\ seated
    /\ SendOne \/ SendTwo
    /\ UNCHANGED << accepting, reading, joined, seated, delivered, failed >>

OnWrite ==
    /\ out.writing # <<>>
    /\ delivered' = Append(delivered, Head(out.writing))
    /\ out' = Written(out)
    /\ UNCHANGED << accepting, reading, sent, failed >>
    /\ DestroyIfIdle

(* Mutant: the message that failed is dropped and the next one is written. *)
OnWriteErrorGoesOn ==
    /\ out.writing # <<>>
    /\ out' = Written(out)
    /\ failed' = TRUE
    /\ UNCHANGED << accepting, reading, sent, delivered >>
    /\ DestroyIfIdle

(* The queue is left as it is: nothing is written any more.                *)
OnWriteError ==
    /\ out.writing # <<>>
    /\ out' = [out EXCEPT !.writing = Tail(@)]
    /\ failed' = TRUE
    /\ UNCHANGED << accepting, reading, sent, delivered >>
    /\ DestroyIfIdle

Next == OnAccept \/ OnRead \/ OnReadError \/ OnBroadcast \/ OnWrite
            \/ OnWriteError

Spec == Init /\ [][Next]_vars

(* A write in progress ends.  Nothing says that a read ever does.          *)
WriteEnds == WF_vars(OnWrite \/ OnWriteError)

FairSpec == Spec /\ WriteEnds

-----------------------------------------------------------------------------
(* Properties.                                                             *)

TypeOK ==
    /\ accepting \in BOOLEAN /\ reading \in BOOLEAN
    /\ joined \in BOOLEAN /\ seated \in BOOLEAN /\ failed \in BOOLEAN
    /\ out \in [queue : Seq(Message), writing : Seq(Message)]
    /\ sent \in Seq(Message) /\ delivered \in Seq(Message)

(* A stream allows one async_write at a time, and async_write borrows the  *)
(* message it writes: the front of the queue holds it until it is written. *)
OneWriteOfTheFront ==
    out.writing # <<>> =>
        out.queue # <<>> /\ out.writing = << Head(out.queue) >>

(* However reads, broadcasts and the ends of writes interleave, the client *)
(* is written the messages in the order they were sent, each once.         *)
Channel == INSTANCE MessageChannel

InOrder == Channel!Spec

(* After a write that failed the client is written nothing more: it sees   *)
(* the messages up to some point, never one after a gap, although the      *)
(* session may read on and be sent broadcasts.                             *)
NothingAfterFailure == [][failed => delivered' = delivered]_vars

(* Whatever was sent is written in the end, unless a write fails.          *)
SentIsDelivered ==
    \A k \in 1..MaxMessages :
        Len(sent) >= k ~> Len(delivered) >= k \/ failed

(* A session that reads no more leaves the manager, and its match, in the  *)
(* end: the writes that keep it alive run out.                             *)
ClosedLeaves == joined /\ ~reading ~> ~joined
=============================================================================
