------------------------------- MODULE Server -------------------------------
(***************************************************************************)
(* The whole server: the Listener that accepts connections, a              *)
(* WebsocketSession for every client, the ServerManager they call, and the *)
(* signal that stops the io_context (src/IO).  The io_context runs the     *)
(* handlers one at a time: each action is one handler, to its end.         *)
(*                                                                         *)
(* What a message says was seen to by ServerManager; here they are all     *)
(* alike, and it is their way through the sessions that is looked at.      *)
(* Sessions are created at fresh addresses (see ServerManager).            *)
(***************************************************************************)
EXTENDS ServerManager

CONSTANT MaxMessages  \* how many messages to a session are looked at

ASSUME MessagesAssumption == MaxMessages \in Nat

VARIABLES
    listener,  \* what became of the Listener's acceptor
    stopped,   \* the io_context was stopped by a signal
    reading,   \* of every session: an async_read is in progress
    out,       \* of every session: the queue and what is being written
    written    \* history: how many messages were written to it

serverVars == << vars, listener, stopped, reading, out, written >>

SomeMessage == "message"

Messages(k) == [i \in 1..k |-> SomeMessage]

Sent(h) == written[h] + Len(out[h].queue)

NothingToWrite == [queue |-> <<>>, writing |-> <<>>]

(* Its last write failed: the message is still at the front of the queue.  *)
Broken(h) == out[h].writing = <<>> /\ out[h].queue # <<>>

Session(h) == INSTANCE WebsocketSession WITH
    Message   <- {SomeMessage},
    accepting <- h \notin Open /\ h \notin DOMAIN handlerMatch,
    reading   <- reading[h],
    out       <- out[h],
    joined    <- h \in Open,
    seated    <- \E id \in MatchID : h \in Seated(id),
    sent      <- Messages(Sent(h)),
    delivered <- Messages(written[h]),
    failed    <- Broken(h)

(* The acceptor could not be opened, or it is open but could not be bound  *)
(* (run() accepts all the same), or it listens.                            *)
InitServer ==
    /\ Init
    /\ listener \in {"closed", "unbound", "listening"} /\ stopped = FALSE
    /\ reading = [h \in Handler |-> FALSE]
    /\ out = [h \in Handler |-> NothingToWrite]
    /\ written = [h \in Handler |-> 0]

-----------------------------------------------------------------------------
NoCall ==
    SendsNothing
        /\ UNCHANGED << sessions, matches, handlerMatch, matchHandlers >>

(* Listener::onAccept(): a session for the connection, and the next accept.*)
OnConnection(h) ==
    /\ listener = "listening" /\ h \notin DOMAIN handlerMatch
    /\ Create(h)
    /\ UNCHANGED << listener, reading, out, written >>

(* No accept follows the one that failed.                                  *)
OnAcceptError ==
    /\ listener \in {"unbound", "listening"} /\ listener' = "ended"
    /\ NoCall /\ UNCHANGED << reading, out, written >>

(* The end of the handshake.  A session that failed it is destroyed.       *)
OnAccept(h) ==
    /\ sessions[h] = "accepting"
    /\ \/ Join(h) /\ reading' = [reading EXCEPT ![h] = TRUE]
       \/ Leave(h) /\ UNCHANGED reading
    /\ UNCHANGED << listener, out, written >>

(* Every message the call sends goes through the queue of its session.     *)
SendMessages ==
    /\ \A h \in Handler : Sent(h) + Len(sentMessages'[h]) <= MaxMessages
    /\ out' = [h \in Handler |->
                  FoldLeft(LAMBDA o, m : Session(h)!SendMessage(o, SomeMessage),
                           out[h], sentMessages'[h])]

OnRead(h) ==
    /\ reading[h]
    /\ \E event \in InputEvent : DispatchMessage(h, event)
    /\ SendMessages
    /\ UNCHANGED << listener, reading, written >>

(* Mutant: messages that wait keep the session alive.                      *)
DestroyIfEmpty(h) ==
    IF reading'[h] \/ out'[h].queue # <<>> THEN NoCall ELSE Leave(h)

(* Mutant: the end of the reads destroys the session.                      *)
LeaveWhenClosed(h) == IF reading'[h] THEN NoCall ELSE Leave(h)

(* Without an operation in progress the session is destroyed, and leaves.  *)
DestroyIfIdle(h) ==
    IF reading'[h] \/ out'[h].writing # <<>> THEN NoCall ELSE Leave(h)

OnReadError(h) ==
    /\ reading[h] /\ reading' = [reading EXCEPT ![h] = FALSE]
    /\ UNCHANGED << listener, out, written >>
    /\ DestroyIfIdle(h)

OnWrite(h) ==
    /\ out[h].writing # <<>>
    /\ out' = [out EXCEPT ![h] = Session(h)!Written(@)]
    /\ written' = [written EXCEPT ![h] = @ + 1]
    /\ UNCHANGED << listener, reading >>
    /\ DestroyIfIdle(h)

OnWriteError(h) ==
    /\ out[h].writing # <<>>
    /\ out' = [out EXCEPT ![h].writing = Tail(@)]
    /\ UNCHANGED << listener, reading, written >>
    /\ DestroyIfIdle(h)

Handlers(h) ==
    OnConnection(h) \/ OnAccept(h) \/ OnRead(h) \/ OnReadError(h)
        \/ OnWrite(h) \/ OnWriteError(h)

(* SIGINT or SIGTERM: run() returns, and the io_context is destroyed with  *)
(* the handlers of all that is in progress.                                *)
OnSignal ==
    /\ stopped' = TRUE
    /\ listener' = "ended"
    /\ reading' = [h \in Handler |-> FALSE]
    /\ out' = [h \in Handler |-> NothingToWrite]
    /\ written' = [h \in Handler |-> 0]
    /\ NoCall

(* With its handlers a session is destroyed; all of them are, one by one,  *)
(* and each still has the manager to leave.                                *)
Teardown(h) ==
    /\ Leave(h)
    /\ UNCHANGED << listener, reading, out, written >>

NextServer ==
    \/ /\ ~stopped /\ UNCHANGED stopped
       /\ OnAcceptError \/ \E h \in Handler : Handlers(h)
    \/ ~stopped /\ OnSignal
    \/ stopped /\ UNCHANGED stopped /\ \E h \in Handler : Teardown(h)

ServerSpec == InitServer /\ [][NextServer]_serverVars

(* A write in progress ends, and so does the read on a connection that     *)
(* could not be written to; the destructor of the io_context runs to its   *)
(* end.  (After a signal no handler runs.)                                 *)
ServerFairness ==
    \A h \in Handler :
        /\ WF_serverVars(~stopped /\ UNCHANGED stopped
                            /\ (OnWrite(h) \/ OnWriteError(h)))
        /\ WF_serverVars(~stopped /\ UNCHANGED stopped
                            /\ Broken(h) /\ OnReadError(h))
        /\ WF_serverVars(stopped /\ UNCHANGED stopped /\ Teardown(h))

FairServerSpec == ServerSpec /\ ServerFairness

-----------------------------------------------------------------------------
(* Properties.                                                             *)

(* The manager keeps plain pointers to the sessions it broadcasts to: each *)
(* of them is kept alive by an operation in progress, to the end.          *)
PointersValid ==
    ~stopped =>
        \A id \in MatchID : \A h \in Seated(id) :
            h \in Open /\ (reading[h] \/ out[h].writing # <<>>)

(* In the server, with the manager answering, broadcasting and being left, *)
(* every session behaves as WebsocketSession says, until a signal.         *)
SessionsAsSpecified ==
    /\ \A h \in Handler : Session(h)!Init
    /\ [][~stopped' =>
            \A h \in Handler :
                [Session(h)!Next]_(Session(h)!vars)]_serverVars

(* A client that closed, or was lost, or is there when the server stops is *)
(* out of its match in the end, although messages still wait for it.       *)
GoneLeave ==
    \A h \in Handler :
        (h \in Open /\ (~reading[h] \/ Broken(h) \/ stopped))
            ~> (h \notin Open /\ \A id \in MatchID : h \notin Seated(id))

-----------------------------------------------------------------------------
(* What the comments of the source say of the program.                     *)

(* Server.hpp: it accepts connections, and works until the signals.        *)
WorksUntilSignal ==
    [][listener = "listening" /\ ~stopped' => listener' = "listening"]_serverVars
=============================================================================
